---- MODULE Spec2Model ----
(***************************************************************************)
(* A model of the after-school roster manager: the Entity Store tables     *)
(* asp_classes, asp_enrollments and asp_audit_log, the two Reconcilers     *)
(* that merge the Veracross feed into them (the /api/sync-asp-data route   *)
(* and the sync-asp-data script) and the manual enrollment edits of the    *)
(* class detail page.                                                      *)
(*                                                                         *)
(* A Reconciler pass is modelled one Entity Store call per step.  The rows *)
(* of the feed are drawn when the loop that reads them reaches them; when  *)
(* feed.fixed holds, the pass reads the rows of the recorded feed instead. *)
(* Row ids are positions in the table: no table row is ever given a        *)
(* position twice.                                                         *)
(***************************************************************************)
EXTENDS Integers, Sequences, FiniteSets, TLC

\* ------------------------------------------------------------------ domains
ClassIds == {"C1", "C2", "C3"}

Students == {1}

\* values of the feed column `Enrollment Status`
EnrollmentStatuses == {"Registered"}

\* enrollment types a staff member picks in the add and edit forms
ManualTypes == {"drop_in", "trial"}

Kinds == {"route", "script"}

Procs == {1}

MaxFeedLen == 2

MaxPasses == 2

MaxManual == 1

MaxFaults == 1

VARIABLES
  classes,      \* asp_classes: sequence of rows, id = position
  enrollments,  \* asp_enrollments: sequence of rows, id = position
  audit,        \* asp_audit_log: sequence of entries
  systemStatus, \* asp_system_status.last_vc_sync (0 = never)
  now,          \* the clock: the number of passes and edits started
  ps,           \* the local state of each Reconciler pass
  feed,         \* the feed the passes read (fixed or free)
  passesLeft,   \* passes that may still start
  manualLeft,   \* manual edits that may still be made
  faultsLeft,   \* store calls that may still fail
  alert,        \* what the class page told the user after the last edit
  agg           \* the rosters: identity and attendance tables, the class page, the last email

vars == <<classes, enrollments, audit, systemStatus, now, ps, feed,
          passesLeft, manualLeft, faultsLeft, alert, agg>>

budget == <<passesLeft, manualLeft>>

store == <<classes, enrollments, audit, systemStatus>>

\* ------------------------------------------------------------------ helpers
EmptyMap == [x \in {} |-> 0]

Ids(table) == 1..Len(table)

Range(s) == {s[i] : i \in 1..Len(s)}

\* a store call answers with an error only while the fault budget lasts
Outcomes == IF faultsLeft > 0 THEN {TRUE, FALSE} ELSE {TRUE}

Spend(ok) == IF ok THEN faultsLeft ELSE faultsLeft - 1

\* ------------------------------------------------------------- Entity Store
\* unique(vc_class_id): the key of on_conflict=vc_class_id
ClassIdOf(tbl, vc) == CHOOSE i \in Ids(tbl) : tbl[i].vc_class_id = vc

\* a store that never finds a class by its vc_class_id
NoClassFound(tbl, vc) == FALSE

\* unique(vc_class_id): the key of on_conflict=vc_class_id
HasClass(tbl, vc) == \E i \in Ids(tbl) : tbl[i].vc_class_id = vc

\* unique(class_id, student_person_id): the key of onConflict 'class_id,student_person_id'
HasEnrollment(tbl, c, s) ==
  \E i \in Ids(tbl) : tbl[i].class_id = c /\ tbl[i].student_person_id = s

EnrollmentIdOf(tbl, c, s) ==
  CHOOSE i \in Ids(tbl) : tbl[i].class_id = c /\ tbl[i].student_person_id = s

\* select id, vc_class_id from asp_classes
SelectClasses(tbl) == [i \in Ids(tbl) |-> [id |-> i, vc_class_id |-> tbl[i].vc_class_id]]

\* ------------------------------------------------------------- pass locals
IdleLocals ==
  [ pc |-> "idle", kind |-> "none", n |-> 0, faulty |-> FALSE,
    preClasses |-> <<>>, preEnrollments |-> <<>>, preAudit |-> <<>>,
    fedClassIds |-> {}, fedKeys |-> {}, lastRow |-> <<>>,
    classRows |-> <<>>, enrollmentRows |-> <<>>,
    existingClasses |-> <<>>, existingClassesNull |-> FALSE,
    classIdMap |-> EmptyMap, bqClassIds |-> {}, bqEnrollmentKeys |-> {},
    existingEnrollments |-> <<>>, existingEnrollmentsNull |-> FALSE,
    errors |-> <<>>,
    newClasses |-> <<>>, newEnrollments |-> <<>>, existingKeys |-> <<>>,
    currentKeys |-> {}, toDeactivate |-> <<>>,
    classCount |-> 0, upsertedCount |-> 0, deactivatedCount |-> 0, deactivatedClasses |-> 0,
    classesInserted |-> 0, classesUpdated |-> 0, classesDeactivated |-> 0,
    enrollmentsUpserted |-> 0, enrollmentsDeactivated |-> 0 ]

\* no feed is recorded: every pass reads what the source then holds
FreeFeed ==
  [fixed |-> FALSE, kind |-> "none", classRows |-> <<>>, enrollmentRows |-> <<>>, runs |-> 0]

\* the feed rows the next iteration of a loop may read: the rows the pass got
\* from its query of a recorded feed, or any rows; the class list of the
\* source has one row for each Class_ID, the roster may repeat a row
NextClassRows(p) ==
  IF feed.fixed
    THEN IF ps[p].n < Len(ps[p].classRows) THEN {ps[p].classRows[ps[p].n + 1]} ELSE {}
    ELSE IF ps[p].n < MaxFeedLen THEN ClassIds \ ps[p].fedClassIds ELSE {}

NextEnrollmentRows(p) ==
  IF feed.fixed
    THEN IF ps[p].n < Len(ps[p].enrollmentRows) THEN {ps[p].enrollmentRows[ps[p].n + 1]} ELSE {}
    ELSE IF ps[p].n < MaxFeedLen
           THEN [vc_class_id : ClassIds, student_person_id : Students,
                 enrollment_status : EnrollmentStatuses]
           ELSE {}

ClassRowsDone(p) == feed.fixed => ps[p].n = Len(ps[p].classRows)

EnrollmentRowsDone(p) == feed.fixed => ps[p].n = Len(ps[p].enrollmentRows)

\* --------------------------------------------------- /api/sync-asp-data POST
\* the two BigQuery queries; a query that throws ends the pass in the catch
RouteBegin(p) ==
  /\ ps[p].pc = "idle"
  /\ passesLeft > 0
  /\ feed.fixed => feed.kind = "route"
  /\ \E ok \in Outcomes :
       /\ faultsLeft' = Spend(ok)
       /\ ps' = [ps EXCEPT ![p] = [IdleLocals EXCEPT
                   !.kind = "route",
                   !.pc = IF ok THEN "load" ELSE "failed",
                   !.classRows = feed.classRows,
                   !.enrollmentRows = feed.enrollmentRows,
                   !.faulty = ~ok,
                   !.preClasses = classes,
                   !.preEnrollments = enrollments,
                   !.preAudit = audit]]
  /\ now' = now + 1
  /\ passesLeft' = passesLeft - 1
  /\ UNCHANGED <<store, feed, manualLeft, alert, agg>>

\* a pass of the route that starts while no other pass runs
RouteStart(p) ==
  /\ \A q \in Procs : ps[q].pc = "idle"
  /\ RouteBegin(p)

\* const { data: existingClasses } = select('id, vc_class_id'); the map of them
RouteLoadClasses(p) ==
  /\ ps[p].kind = "route" /\ ps[p].pc = "load"
  /\ \E ok \in Outcomes :
       LET existing == IF ok THEN SelectClasses(classes) ELSE <<>>
       IN /\ faultsLeft' = Spend(ok)
          /\ ps' = [ps EXCEPT ![p] = [@ EXCEPT
                      !.pc = "classes",
                      !.faulty = @ \/ ~ok,
                      !.existingClasses = existing,
                      !.existingClassesNull = ~ok,
                      !.classIdMap = [vc \in {r.vc_class_id : r \in Range(existing)} |->
                                        ClassIdOf(classes, vc)]]]
  /\ UNCHANGED <<store, now, feed, budget, alert, agg>>

\* a Reconciler whose update leaves is_active as it is
UpdateClassAsStored(tbl, id, vc) == [tbl EXCEPT ![id] = [@ EXCEPT !.vc_class_id = vc]]

\* update(classData).eq('id', existingId)
UpdateClass(tbl, id, vc) ==
  [tbl EXCEPT ![id] = [@ EXCEPT !.vc_class_id = vc, !.is_active = TRUE]]

\* a Reconciler that inserts a new class as inactive
InsertClassInactive(tbl, vc) ==
  Append(tbl, [vc_class_id |-> vc, is_active |-> FALSE, last_vc_sync |-> 0])

\* insert(classData): a second row of the same vc_class_id is refused
InsertClass(tbl, vc) ==
  Append(tbl, [vc_class_id |-> vc, is_active |-> TRUE, last_vc_sync |-> 0])

\* one iteration of "for (const row of classRows)"
RouteUpsertClass(p) ==
  /\ ps[p].kind = "route" /\ ps[p].pc = "classes"
  /\ \E vcClassId \in NextClassRows(p), ok \in Outcomes :
       LET l == ps[p]
           known == vcClassId \in DOMAIN l.classIdMap
           done == IF known THEN ok ELSE ok /\ ~HasClass(classes, vcClassId)
       IN /\ faultsLeft' = Spend(ok)
          /\ classes' = IF ~done THEN classes
                        ELSE IF known THEN UpdateClass(classes, l.classIdMap[vcClassId], vcClassId)
                        ELSE InsertClass(classes, vcClassId)
          /\ ps' = [ps EXCEPT ![p] = [@ EXCEPT
                      !.n = @ + 1,
                      !.faulty = @ \/ ~ok,
                      !.fedClassIds = @ \cup {vcClassId},
                      !.bqClassIds = @ \cup {vcClassId},
                      !.errors = IF done THEN @
                                 ELSE Append(@, [op |-> IF known THEN "update class" ELSE "insert class",
                                                 vc_class_id |-> vcClassId, student_person_id |-> 0]),
                      !.classesUpdated = IF done /\ known THEN @ + 1 ELSE @,
                      !.classesInserted = IF done /\ ~known THEN @ + 1 ELSE @,
                      !.classIdMap = IF done /\ ~known
                                       THEN (vcClassId :> (Len(classes) + 1)) @@ @
                                       ELSE @]]
  /\ UNCHANGED <<enrollments, audit, systemStatus, now, feed, budget, alert, agg>>

\* the class loop ends; the deactivation loop starts at the first existing class
RouteClassesDone(p) ==
  /\ ps[p].kind = "route" /\ ps[p].pc = "classes"
  /\ ClassRowsDone(p)
  /\ ps' = [ps EXCEPT ![p] = [@ EXCEPT !.pc = "deactivate classes", !.n = 0]]
  /\ UNCHANGED <<store, now, feed, budget, faultsLeft, alert, agg>>

\* the existing classes the loop of step 4 still has to deactivate
ClassesToDeactivate(l) ==
  {i \in 1..Len(l.existingClasses) :
     i > l.n /\ l.existingClasses[i].vc_class_id \notin l.bqClassIds}

Min(S) == CHOOSE x \in S : \A y \in S : x <= y

\* update({ is_active: false }).eq('id', existing.id); its error is not read
RouteDeactivateClass(p) ==
  /\ ps[p].kind = "route" /\ ps[p].pc = "deactivate classes"
  /\ ClassesToDeactivate(ps[p]) # {}
  /\ \E ok \in Outcomes :
       LET i == Min(ClassesToDeactivate(ps[p]))
           id == ps[p].existingClasses[i].id
       IN /\ faultsLeft' = Spend(ok)
          /\ classes' = IF ok THEN [classes EXCEPT ![id].is_active = FALSE] ELSE classes
          /\ ps' = [ps EXCEPT ![p] = [@ EXCEPT
                      !.n = i,
                      !.faulty = @ \/ ~ok,
                      !.classesDeactivated = @ + 1]]
  /\ UNCHANGED <<enrollments, audit, systemStatus, now, feed, budget, alert, agg>>

RouteDeactivateClassesDone(p) ==
  /\ ps[p].kind = "route" /\ ps[p].pc = "deactivate classes"
  /\ ClassesToDeactivate(ps[p]) = {}
  /\ ps' = [ps EXCEPT ![p] = [@ EXCEPT !.pc = "enrollments", !.n = 0]]
  /\ UNCHANGED <<store, now, feed, budget, faultsLeft, alert, agg>>

\* enrollmentStatus?.toLowerCase()
ToLowerCase(str) ==
  CASE str = "Registered" -> "registered"
    [] str = "Enrolled" -> "enrolled"
    [] OTHER -> str

EnrollmentType(enrollmentStatus) ==
  IF ToLowerCase(enrollmentStatus) = "registered" THEN "registered" ELSE "enrolled"

\* a store that inserts the row whatever rows it holds
InsertEnrollment(tbl, c, s, type, ts) ==
  Append(tbl, [class_id |-> c, student_person_id |-> s, status |-> "active",
               source |-> "veracross", enrollment_type |-> type,
               removal_reason |-> "null", updated_at |-> ts])

\* upsert({class_id, student_person_id, enrollment_type, source, status},
\*        { onConflict: 'class_id,student_person_id' })
UpsertEnrollment(tbl, c, s, type, ts) ==
  IF HasEnrollment(tbl, c, s)
    THEN [tbl EXCEPT ![EnrollmentIdOf(tbl, c, s)] =
            [@ EXCEPT !.enrollment_type = type, !.source = "veracross", !.status = "active"]]
    ELSE Append(tbl, [class_id |-> c, student_person_id |-> s, status |-> "active",
                      source |-> "veracross", enrollment_type |-> type,
                      removal_reason |-> "null", updated_at |-> ts])

\* a Reconciler that skips the row without a word
PushNothing(errors, vcClassId) == errors

\* errors.push(`No class found for ${vcClassId}`)
PushNoClass(errors, vcClassId) ==
  Append(errors, [op |-> "no class", vc_class_id |-> vcClassId, student_person_id |-> 0])

\* one iteration of "for (const row of enrollmentRows)"
RouteUpsertEnrollment(p) ==
  /\ ps[p].kind = "route" /\ ps[p].pc = "enrollments"
  /\ \E row \in NextEnrollmentRows(p) :
       LET l == ps[p]
           vcClassId == row.vc_class_id
           studentPersonId == row.student_person_id
           known == vcClassId \in DOMAIN l.classIdMap
       IN IF ~known
            THEN /\ ps' = [ps EXCEPT ![p] = [@ EXCEPT
                             !.n = @ + 1,
                             !.lastRow = row,
                             !.fedKeys = @ \cup {<<vcClassId, studentPersonId>>},
                             !.errors = PushNoClass(@, vcClassId)]]
                 /\ UNCHANGED <<enrollments, faultsLeft>>
            ELSE \E ok \in Outcomes :
                   LET classUuid == l.classIdMap[vcClassId]
                   IN /\ faultsLeft' = Spend(ok)
                      /\ enrollments' =
                           IF ok THEN UpsertEnrollment(enrollments, classUuid, studentPersonId,
                                                       EnrollmentType(row.enrollment_status), now)
                                 ELSE enrollments
                      /\ ps' = [ps EXCEPT ![p] = [@ EXCEPT
                                  !.n = @ + 1,
                                  !.lastRow = row,
                                  !.faulty = @ \/ ~ok,
                                  !.fedKeys = @ \cup {<<vcClassId, studentPersonId>>},
                                  !.bqEnrollmentKeys = @ \cup {<<classUuid, studentPersonId>>},
                                  !.errors = IF ok THEN @
                                             ELSE Append(@, [op |-> "upsert enrollment",
                                                             vc_class_id |-> vcClassId,
                                                             student_person_id |-> studentPersonId]),
                                  !.enrollmentsUpserted = IF ok THEN @ + 1 ELSE @]]
  /\ UNCHANGED <<classes, audit, systemStatus, now, feed, budget, alert, agg>>

\* a select that returns no row
SelectNoEnrollments(tbl) == <<>>

\* select('id, class_id, student_person_id').eq('source','veracross').eq('status','active')
SelectActiveVeracross(tbl) ==
  SelectSeq([i \in Ids(tbl) |-> [id |-> i, class_id |-> tbl[i].class_id,
                                 student_person_id |-> tbl[i].student_person_id]],
            LAMBDA r : tbl[r.id].source = "veracross" /\ tbl[r.id].status = "active")

\* the enrollment loop ends; const { data: existingEnrollments } = select(...)
RouteSelectEnrollments(p) ==
  /\ ps[p].kind = "route" /\ ps[p].pc = "enrollments"
  /\ EnrollmentRowsDone(p)
  /\ \E ok \in Outcomes :
       /\ faultsLeft' = Spend(ok)
       /\ ps' = [ps EXCEPT ![p] = [@ EXCEPT
                   !.pc = "deactivate enrollments",
                   !.n = 0,
                   !.faulty = @ \/ ~ok,
                   !.existingEnrollments = IF ok THEN SelectActiveVeracross(enrollments) ELSE <<>>,
                   !.existingEnrollmentsNull = ~ok]]
  /\ UNCHANGED <<store, now, feed, budget, alert, agg>>

\* the selected enrollments the loop of step 6 still has to deactivate
EnrollmentsToDeactivate(l) ==
  {i \in 1..Len(l.existingEnrollments) :
     /\ i > l.n
     /\ <<l.existingEnrollments[i].class_id, l.existingEnrollments[i].student_person_id>>
          \notin l.bqEnrollmentKeys}

\* a Reconciler that retires a row by deleting it
DeleteEnrollment(tbl, id) ==
  [i \in 1..(Len(tbl) - 1) |-> IF i < id THEN tbl[i] ELSE tbl[i + 1]]

\* update({ status: 'inactive', removal_reason: 'Removed from Veracross' }).eq('id', enrollment.id)
DeactivateEnrollment(tbl, id) ==
  [tbl EXCEPT ![id] = [@ EXCEPT !.status = "inactive",
                                !.removal_reason = "Removed from Veracross"]]

RouteDeactivateEnrollment(p) ==
  /\ ps[p].kind = "route" /\ ps[p].pc = "deactivate enrollments"
  /\ EnrollmentsToDeactivate(ps[p]) # {}
  /\ \E ok \in Outcomes :
       LET i == Min(EnrollmentsToDeactivate(ps[p]))
           id == ps[p].existingEnrollments[i].id
       IN /\ faultsLeft' = Spend(ok)
          /\ enrollments' = IF ok THEN DeactivateEnrollment(enrollments, id) ELSE enrollments
          /\ ps' = [ps EXCEPT ![p] = [@ EXCEPT
                      !.n = i,
                      !.faulty = @ \/ ~ok,
                      !.enrollmentsDeactivated = @ + 1]]
  /\ UNCHANGED <<classes, audit, systemStatus, now, feed, budget, alert, agg>>

\* 7. upsert({ id: 1, last_vc_sync }) into asp_system_status; its error is not read
RouteSystemStatus(p) ==
  /\ ps[p].kind = "route" /\ ps[p].pc = "deactivate enrollments"
  /\ EnrollmentsToDeactivate(ps[p]) = {}
  /\ \E ok \in Outcomes :
       /\ faultsLeft' = Spend(ok)
       /\ systemStatus' = IF ok THEN now ELSE systemStatus
       /\ ps' = [ps EXCEPT ![p] = [@ EXCEPT !.pc = "audit", !.n = 0, !.faulty = @ \/ ~ok]]
  /\ UNCHANGED <<classes, enrollments, audit, now, feed, budget, alert, agg>>

\* the counts a pass reports
Counts(l) ==
  [ classes_inserted |-> l.classesInserted, classes_updated |-> l.classesUpdated,
    classes_deactivated |-> l.classesDeactivated,
    enrollments_upserted |-> l.enrollmentsUpserted,
    enrollments_deactivated |-> l.enrollmentsDeactivated,
    errors |-> Len(l.errors) ]

\* a Reconciler that keeps only its own entry in the log
RouteAuditTruncate(p) ==
  /\ ps[p].kind = "route" /\ ps[p].pc = "audit"
  /\ audit' = <<[table_name |-> "system", record_id |-> 0,
                 action |-> "sync", values |-> Counts(ps[p])]>>
  /\ ps' = [ps EXCEPT ![p] = [@ EXCEPT !.pc = "done"]]
  /\ UNCHANGED <<classes, enrollments, systemStatus, now, feed, budget, faultsLeft, alert, agg>>

\* 8. insert into asp_audit_log; its error is not read
RouteAudit(p) ==
  /\ ps[p].kind = "route" /\ ps[p].pc = "audit"
  /\ \E ok \in Outcomes :
       /\ faultsLeft' = Spend(ok)
       /\ audit' = IF ok THEN Append(audit, [table_name |-> "system", record_id |-> 0,
                                             action |-> "sync", values |-> Counts(ps[p])])
                         ELSE audit
       /\ ps' = [ps EXCEPT ![p] = [@ EXCEPT !.pc = "done", !.faulty = @ \/ ~ok]]
  /\ UNCHANGED <<classes, enrollments, systemStatus, now, feed, budget, alert, agg>>

\* the response is returned (success: true, or the 500 of the catch)
Return(p) ==
  /\ ps[p].pc \in {"done", "failed"}
  /\ ps' = [ps EXCEPT ![p] = IdleLocals]
  /\ feed' = IF feed.fixed /\ ps[p].pc = "done" THEN [feed EXCEPT !.runs = @ + 1] ELSE feed
  /\ UNCHANGED <<store, now, budget, faultsLeft, alert, agg>>

\* -------------------------------------------------- scripts/sync-asp-data.js
\* a fetch that fails either resolves with a response that is not ok or rejects
Rejects(ok) == IF ok THEN {FALSE} ELSE {FALSE, TRUE}

\* a batch that names one conflict key twice is refused as a whole
HasDuplicates(seq) == \E i, j \in 1..Len(seq) : i < j /\ seq[i] = seq[j]

\* main: queryBigQuery(classSql); a query that throws ends the run in the catch
ScriptBegin(p) ==
  /\ ps[p].pc = "idle"
  /\ passesLeft > 0
  /\ feed.fixed => feed.kind = "script"
  /\ \E ok \in Outcomes :
       /\ faultsLeft' = Spend(ok)
       /\ ps' = [ps EXCEPT ![p] = [IdleLocals EXCEPT
                   !.kind = "script",
                   !.pc = IF ok THEN "classes" ELSE "failed",
                   !.classRows = feed.classRows,
                   !.faulty = ~ok,
                   !.preClasses = classes,
                   !.preEnrollments = enrollments,
                   !.preAudit = audit]]
  /\ now' = now + 1
  /\ passesLeft' = passesLeft - 1
  /\ UNCHANGED <<store, feed, manualLeft, alert, agg>>

\* a run of the script that starts while no other pass runs
ScriptStart(p) ==
  /\ \A q \in Procs : ps[q].pc = "idle"
  /\ ScriptBegin(p)

\* classRows.map(row => ...): one row of the batch
ScriptTransformClass(p) ==
  /\ ps[p].kind = "script" /\ ps[p].pc = "classes"
  /\ \E vc \in NextClassRows(p) :
       ps' = [ps EXCEPT ![p] = [@ EXCEPT !.n = @ + 1, !.fedClassIds = @ \cup {vc},
                                         !.newClasses = Append(@, vc)]]
  /\ UNCHANGED <<store, now, feed, budget, faultsLeft, alert, agg>>

\* POST asp_classes?on_conflict=vc_class_id, resolution=merge-duplicates
RECURSIVE UpsertClasses(_, _, _)
UpsertClasses(tbl, batch, ts) ==
  IF batch = <<>> THEN tbl
  ELSE LET vc == Head(batch)
           next == IF HasClass(tbl, vc)
                     THEN [tbl EXCEPT ![ClassIdOf(tbl, vc)] =
                             [@ EXCEPT !.is_active = TRUE, !.last_vc_sync = ts]]
                     ELSE Append(tbl, [vc_class_id |-> vc, is_active |-> TRUE,
                                       last_vc_sync |-> ts])
       IN UpsertClasses(next, Tail(batch), ts)

\* upsertClasses(classes): the one batch of the run (batchSize = 50)
ScriptUpsertClasses(p) ==
  /\ ps[p].kind = "script" /\ ps[p].pc = "classes"
  /\ ClassRowsDone(p)
  /\ \E ok \in (IF ps[p].newClasses = <<>> THEN {TRUE} ELSE Outcomes) :
     \E rejects \in Rejects(ok) :
       LET batch == ps[p].newClasses
           done == ok /\ batch # <<>> /\ ~HasDuplicates(batch)
       IN /\ faultsLeft' = Spend(ok)
          /\ classes' = IF done THEN UpsertClasses(classes, batch, now) ELSE classes
          /\ ps' = [ps EXCEPT ![p] = [@ EXCEPT
                      !.pc = IF rejects THEN "failed" ELSE "class map",
                      !.n = 0,
                      !.faulty = @ \/ ~ok,
                      !.errors = IF done \/ batch = <<>> THEN @
                                 ELSE Append(@, [op |-> "class batch", vc_class_id |-> "",
                                                 student_person_id |-> 0]),
                      !.classCount = IF done THEN Len(batch) ELSE 0]]
  /\ UNCHANGED <<enrollments, audit, systemStatus, now, feed, budget, alert, agg>>

\* getClassIdMap(): a failed read makes "for (const c of classes)" throw;
\* then queryBigQuery(enrollmentSql)
ScriptGetClassIdMap(p) ==
  /\ ps[p].kind = "script" /\ ps[p].pc = "class map"
  /\ \E ok \in Outcomes :
       /\ faultsLeft' = Spend(ok)
       /\ ps' = [ps EXCEPT ![p] = [@ EXCEPT
                   !.pc = IF ok THEN "existing" ELSE "failed",
                   !.enrollmentRows = feed.enrollmentRows,
                   !.faulty = @ \/ ~ok,
                   !.classIdMap = IF ok THEN [vc \in {classes[i].vc_class_id : i \in Ids(classes)} |->
                                               ClassIdOf(classes, vc)]
                                        ELSE @]]
  /\ UNCHANGED <<store, now, feed, budget, alert, agg>>

\* asp_enrollments?source=eq.veracross&select=id,class_id,student_person_id
SelectVeracrossKeys(tbl) ==
  LET rows == SelectSeq([i \in Ids(tbl) |-> i], LAMBDA i : tbl[i].source = "veracross")
  IN [k \in 1..Len(rows) |-> <<tbl[rows[k]].class_id, tbl[rows[k]].student_person_id>>]

\* syncEnrollments: the read of the existing enrollments; a failed read throws
ScriptFetchExisting(p) ==
  /\ ps[p].kind = "script" /\ ps[p].pc = "existing"
  /\ \E ok \in Outcomes :
       /\ faultsLeft' = Spend(ok)
       /\ ps' = [ps EXCEPT ![p] = [@ EXCEPT
                   !.pc = IF ok THEN "enrollments" ELSE "failed",
                   !.faulty = @ \/ ~ok,
                   !.existingKeys = IF ok THEN SelectVeracrossKeys(enrollments) ELSE @]]
  /\ UNCHANGED <<store, now, feed, budget, alert, agg>>

\* one iteration of "for (const e of enrollments)"
ScriptPrepareEnrollment(p) ==
  /\ ps[p].kind = "script" /\ ps[p].pc = "enrollments"
  /\ \E row \in NextEnrollmentRows(p) :
       LET l == ps[p]
           known == row.vc_class_id \in DOMAIN l.classIdMap
           key == <<l.classIdMap[row.vc_class_id], row.student_person_id>>
       IN ps' = [ps EXCEPT ![p] = [@ EXCEPT
                   !.n = @ + 1,
                   !.lastRow = row,
                   !.fedKeys = @ \cup {<<row.vc_class_id, row.student_person_id>>},
                   !.errors = IF known THEN @
                              ELSE Append(@, [op |-> "no class", vc_class_id |-> row.vc_class_id,
                                              student_person_id |-> 0]),
                   !.currentKeys = IF known THEN @ \cup {key} ELSE @,
                   !.newEnrollments = IF known THEN Append(@, key) ELSE @]]
  /\ UNCHANGED <<store, now, feed, budget, faultsLeft, alert, agg>>

\* POST asp_enrollments?on_conflict=class_id,student_person_id, merge-duplicates
RECURSIVE UpsertEnrollments(_, _, _)
UpsertEnrollments(tbl, batch, ts) ==
  IF batch = <<>> THEN tbl
  ELSE LET c == Head(batch)[1]
           s == Head(batch)[2]
           next == IF HasEnrollment(tbl, c, s)
                     THEN [tbl EXCEPT ![EnrollmentIdOf(tbl, c, s)] =
                             [@ EXCEPT !.status = "active", !.source = "veracross",
                                       !.enrollment_type = "full", !.updated_at = ts]]
                     ELSE Append(tbl, [class_id |-> c, student_person_id |-> s,
                                       status |-> "active", source |-> "veracross",
                                       enrollment_type |-> "full", removal_reason |-> "null",
                                       updated_at |-> ts])
       IN UpsertEnrollments(next, Tail(batch), ts)

\* [...existingKeys].filter(key => !currentKeys.has(key))
ToDeactivate(existingKeys, currentKeys) ==
  SelectSeq(existingKeys, LAMBDA key : key \notin currentKeys)

\* the one batch of newEnrollments (batchSize = 100), then toDeactivate
ScriptUpsertEnrollments(p) ==
  /\ ps[p].kind = "script" /\ ps[p].pc = "enrollments"
  /\ EnrollmentRowsDone(p)
  /\ \E ok \in (IF ps[p].newEnrollments = <<>> THEN {TRUE} ELSE Outcomes) :
     \E rejects \in Rejects(ok) :
       LET batch == ps[p].newEnrollments
           done == ok /\ batch # <<>> /\ ~HasDuplicates(batch)
       IN /\ faultsLeft' = Spend(ok)
          /\ enrollments' = IF done THEN UpsertEnrollments(enrollments, batch, now)
                                    ELSE enrollments
          /\ ps' = [ps EXCEPT ![p] = [@ EXCEPT
                      !.pc = IF rejects THEN "failed" ELSE "deactivate enrollments",
                      !.n = 0,
                      !.faulty = @ \/ ~ok,
                      !.errors = IF done \/ batch = <<>> THEN @
                                 ELSE Append(@, [op |-> "enrollment batch", vc_class_id |-> "",
                                                 student_person_id |-> 0]),
                      !.upsertedCount = IF done THEN Len(batch) ELSE 0,
                      !.toDeactivate = ToDeactivate(ps[p].existingKeys, ps[p].currentKeys)]]
  /\ UNCHANGED <<classes, audit, systemStatus, now, feed, budget, alert, agg>>

\* PATCH asp_enrollments?class_id=eq.&student_person_id=eq.&source=eq.veracross
PatchEnrollments(tbl, c, s, ts) ==
  [i \in Ids(tbl) |->
     IF tbl[i].class_id = c /\ tbl[i].student_person_id = s /\ tbl[i].source = "veracross"
       THEN [tbl[i] EXCEPT !.status = "inactive",
                           !.removal_reason = "Removed from Veracross",
                           !.updated_at = ts]
       ELSE tbl[i]]

\* one iteration of "for (const key of toDeactivate)"
ScriptDeactivateEnrollment(p) ==
  /\ ps[p].kind = "script" /\ ps[p].pc = "deactivate enrollments"
  /\ ps[p].n < Len(ps[p].toDeactivate)
  /\ \E ok \in Outcomes :
     \E rejects \in Rejects(ok) :
       LET key == ps[p].toDeactivate[ps[p].n + 1]
       IN /\ faultsLeft' = Spend(ok)
          /\ enrollments' = IF ok THEN PatchEnrollments(enrollments, key[1], key[2], now)
                                  ELSE enrollments
          /\ ps' = [ps EXCEPT ![p] = [@ EXCEPT
                      !.pc = IF rejects THEN "failed" ELSE @,
                      !.n = @ + 1,
                      !.faulty = @ \/ ~ok,
                      !.deactivatedCount = IF ok THEN @ + 1 ELSE @]]
  /\ UNCHANGED <<classes, audit, systemStatus, now, feed, budget, alert, agg>>

\* asp_classes?is_active=eq.true&select=vc_class_id, minus the class ids of the feed
ActiveClassesToDeactivate(tbl, batch) ==
  LET rows == SelectSeq([i \in Ids(tbl) |-> i],
                        LAMBDA i : tbl[i].is_active /\ tbl[i].vc_class_id \notin Range(batch))
  IN [k \in 1..Len(rows) |-> tbl[rows[k]].vc_class_id]

\* main: the read of the active classes; a failed read throws
ScriptFetchActiveClasses(p) ==
  /\ ps[p].kind = "script" /\ ps[p].pc = "deactivate enrollments"
  /\ ps[p].n = Len(ps[p].toDeactivate)
  /\ \E ok \in Outcomes :
       /\ faultsLeft' = Spend(ok)
       /\ ps' = [ps EXCEPT ![p] = [@ EXCEPT
                   !.pc = IF ok THEN "deactivate classes" ELSE "failed",
                   !.n = 0,
                   !.faulty = @ \/ ~ok,
                   !.toDeactivate = IF ok THEN ActiveClassesToDeactivate(classes, ps[p].newClasses)
                                          ELSE @]]
  /\ UNCHANGED <<store, now, feed, budget, alert, agg>>

\* PATCH asp_classes?vc_class_id=eq. { is_active: false }
PatchClasses(tbl, vc) ==
  [i \in Ids(tbl) |->
     IF tbl[i].vc_class_id = vc THEN [tbl[i] EXCEPT !.is_active = FALSE] ELSE tbl[i]]

ScriptDeactivateClass(p) ==
  /\ ps[p].kind = "script" /\ ps[p].pc = "deactivate classes"
  /\ ps[p].n < Len(ps[p].toDeactivate)
  /\ \E ok \in Outcomes :
     \E rejects \in Rejects(ok) :
       LET vcClassId == ps[p].toDeactivate[ps[p].n + 1]
       IN /\ faultsLeft' = Spend(ok)
          /\ classes' = IF ok THEN PatchClasses(classes, vcClassId) ELSE classes
          /\ ps' = [ps EXCEPT ![p] = [@ EXCEPT
                      !.pc = IF rejects THEN "failed" ELSE @,
                      !.n = @ + 1,
                      !.faulty = @ \/ ~ok,
                      !.deactivatedClasses = IF ok THEN @ + 1 ELSE @]]
  /\ UNCHANGED <<enrollments, audit, systemStatus, now, feed, budget, alert, agg>>

\* POST asp_audit_log; the response is not read
ScriptAudit(p) ==
  /\ ps[p].kind = "script" /\ ps[p].pc = "deactivate classes"
  /\ ps[p].n = Len(ps[p].toDeactivate)
  /\ \E ok \in Outcomes :
     \E rejects \in Rejects(ok) :
       /\ faultsLeft' = Spend(ok)
       /\ audit' = IF ok
                     THEN Append(audit, [table_name |-> "asp_classes", record_id |-> 0,
                                         action |-> "sync",
                                         values |-> [classes_synced |-> ps[p].classCount,
                                                     enrollments_synced |-> ps[p].upsertedCount,
                                                     enrollments_deactivated |-> ps[p].deactivatedCount,
                                                     classes_deactivated |-> ps[p].deactivatedClasses]])
                     ELSE audit
       /\ ps' = [ps EXCEPT ![p] = [@ EXCEPT !.pc = IF rejects THEN "failed" ELSE "done",
                                            !.faulty = @ \/ ~ok]]
  /\ UNCHANGED <<classes, enrollments, systemStatus, now, feed, budget, alert, agg>>

\* ------------------------------------------------------------- the rosters
\* students: no row for a person the identity table does not know
NoStudent == [found |-> FALSE, first_name |-> "", last_name |-> "", grade_level |-> 0]

Identity(first, last) ==
  [found |-> TRUE, first_name |-> first, last_name |-> last, grade_level |-> 3]

\* .in('student_attendance_status', [29, 30, 72])
AbsentCodes == {29, 30, 72}

\* the class page before its first load
EmptyPage(classId) ==
  [classId |-> classId, enrollments |-> <<>>,
   vcAbsentStudents |-> {}, manualAbsentStudents |-> {}]

\* the page of classId: the one that is open, or a fresh one
PageOf(classId) == IF agg.page.classId = classId THEN agg.page ELSE EmptyPage(classId)

NoMail == [sender |-> "none", rosters |-> <<>>]

\* the letters of a string without their case
Fold(str) ==
  CASE str = "Smith" -> "smith"
    [] str = "Ann" -> "ann"
    [] str = "Bob" -> "bob"
    [] str = "Student" -> "student"
    [] str = "Unknown" -> "unknown"
    [] str = "Unknown Student" -> "unknown student"
    [] OTHER -> str

\* the place of a folded string in alphabetical order
PrimaryRank(str) ==
  CASE Fold(str) = "" -> 0
    [] Fold(str) = "adams" -> 1
    [] Fold(str) = "ann" -> 2
    [] Fold(str) = "bob" -> 3
    [] Fold(str) = "smith" -> 4
    [] Fold(str) = "student" -> 5
    [] Fold(str) = "unknown" -> 6
    [] Fold(str) = "unknown student" -> 7

\* a.localeCompare(b): the letters decide; between strings that differ in case
\* only, the lower case one comes first
LocaleCompare(a, b) ==
  IF PrimaryRank(a) < PrimaryRank(b) THEN -1
  ELSE IF PrimaryRank(a) > PrimaryRank(b) THEN 1
  ELSE IF a = b THEN 0
  ELSE IF Fold(a) = a THEN -1 ELSE 1

\* `${last_name}, ${first_name}` is <<last_name, first_name>>
FullName(student) == <<student.last_name, student.first_name>>

UnknownStudent == <<"Unknown Student">>

Part(name, k) == IF k <= Len(name) THEN name[k] ELSE ""

\* localeCompare of two names: the letters of the whole string first, the case after
CompareNames(a, b) ==
  IF PrimaryRank(Part(a, 1)) # PrimaryRank(Part(b, 1))
    THEN LocaleCompare(Part(a, 1), Part(b, 1))
  ELSE IF PrimaryRank(Part(a, 2)) # PrimaryRank(Part(b, 2))
    THEN LocaleCompare(Part(a, 2), Part(b, 2))
  ELSE IF Part(a, 1) # Part(b, 1)
    THEN LocaleCompare(Part(a, 1), Part(b, 1))
  ELSE LocaleCompare(Part(a, 2), Part(b, 2))

\* Array.prototype.sort: stable; compare[j, i] is the comparator on s[j], s[i]
SortBy(s, compare) ==
  LET Pos(i) == 1 + Cardinality({j \in 1..Len(s) :
                                   \/ compare[j, i] < 0
                                   \/ compare[j, i] = 0 /\ j < i})
  IN [k \in 1..Len(s) |-> s[CHOOSE i \in 1..Len(s) : Pos(i) = k]]

\* .eq('status', 'active').order('created_at'): the ids of the active rows of
\* the classes, oldest first
ActiveRowsOf(rows, classIds) ==
  LET Listed(i) == rows[i].class_id \in classIds /\ rows[i].status = "active"
  IN SelectSeq([i \in 1..Len(rows) |-> i], Listed)

\* a student whose names the roster leaves blank
BlankStudent(personId) ==
  [person_id |-> personId, first_name |-> "", last_name |-> "", grade_level |-> 0]

\* student || {id: 0, person_id, first_name: 'Unknown', last_name: 'Student', grade_level: 0}
StudentOf(personId) ==
  IF agg.students[personId].found
    THEN [person_id |-> personId,
          first_name |-> agg.students[personId].first_name,
          last_name |-> agg.students[personId].last_name,
          grade_level |-> agg.students[personId].grade_level]
    ELSE [person_id |-> personId, first_name |-> "Unknown", last_name |-> "Student",
          grade_level |-> 0]

ByLastName(a, b) == LocaleCompare(a.student.last_name, b.student.last_name)

\* loadEnrollments: the state of the page after it loaded the rows of its class
LoadEnrollments(page, rows) ==
  LET enrollmentData == ActiveRowsOf(rows, {page.classId})
      studentIds == {rows[i].student_person_id : i \in Range(enrollmentData)}
      enrichedEnrollments ==
        [k \in 1..Len(enrollmentData) |->
           [id |-> enrollmentData[k],
            student_person_id |-> rows[enrollmentData[k]].student_person_id,
            enrollment_type |-> rows[enrollmentData[k]].enrollment_type,
            student |-> StudentOf(rows[enrollmentData[k]].student_person_id)]]
  IN IF enrollmentData = <<>>
       THEN [page EXCEPT !.enrollments = <<>>]
       ELSE [classId |-> page.classId,
             enrollments |->
               SortBy(enrichedEnrollments,
                      [j \in 1..Len(enrichedEnrollments), i \in 1..Len(enrichedEnrollments) |->
                         ByLastName(enrichedEnrollments[j], enrichedEnrollments[i])]),
             vcAbsentStudents |-> {s \in studentIds : agg.marks[s] \in AbsentCodes},
             manualAbsentStudents |->
               {s \in DOMAIN agg.students : <<page.classId, s>> \in agg.manualAbsences}]

\* the class page is opened: its effect loads the enrollments
OpenClassPage ==
  /\ \E classId \in Ids(classes) :
       agg' = [agg EXCEPT !.page = LoadEnrollments(EmptyPage(classId), enrollments)]
  /\ UNCHANGED <<store, now, ps, feed, budget, faultsLeft, alert>>

\* the students the page lists
Listed == {agg.page.enrollments[k].student_person_id : k \in Ids(agg.page.enrollments)}

\* toggleManualAbsence: delete or insert the absence of today, and follow it
\* in the page when the store accepted it
ToggleManualAbsence ==
  /\ \E studentPersonId \in Listed, ok \in Outcomes :
       /\ faultsLeft' = Spend(ok)
       /\ agg' =
            IF ~ok THEN agg
            ELSE IF studentPersonId \in agg.page.manualAbsentStudents
              THEN [agg EXCEPT
                      !.manualAbsences = @ \ {<<agg.page.classId, studentPersonId>>},
                      !.page.manualAbsentStudents = @ \ {studentPersonId}]
              ELSE [agg EXCEPT
                      !.manualAbsences = @ \cup {<<agg.page.classId, studentPersonId>>},
                      !.page.manualAbsentStudents = @ \cup {studentPersonId}]
  /\ UNCHANGED <<store, now, ps, feed, budget, alert>>

\* isAbsent = isVcAbsent || isManualAbsent, and allAbsent of the print view
PageAbsent == agg.page.vcAbsentStudents \cup agg.page.manualAbsentStudents

ByName(a, b) == CompareNames(a.name, b.name)

\* the rosters of the classes classIds: the active rows of each
RostersOf(classIds, absentStudents) ==
  LET ClassStudents(c) ==
        LET classEnrollments == ActiveRowsOf(enrollments, {c})
        IN [k \in 1..Len(classEnrollments) |->
              LET e == enrollments[classEnrollments[k]]
                  student == agg.students[e.student_person_id]
              IN [name |-> IF student.found THEN FullName(student) ELSE UnknownStudent,
                  grade |-> IF student.found THEN student.grade_level ELSE 0,
                  enrollmentType |-> e.enrollment_type,
                  isAbsent |-> e.student_person_id \in absentStudents,
                  enrollment_id |-> classEnrollments[k]]]
  IN [k \in 1..Len(classIds) |->
        LET classStudents == ClassStudents(classIds[k])
        IN [classId |-> classIds[k],
            students |-> SortBy(classStudents,
                                [j \in 1..Len(classStudents), i \in 1..Len(classStudents) |->
                                   ByName(classStudents[j], classStudents[i])])]]

\* the rosters of the daily email on a day when every active class meets
Rosters(absentStudents) ==
  RostersOf(SelectSeq([i \in 1..Len(classes) |-> i], LAMBDA i : classes[i].is_active),
            absentStudents)

\* master_attendance rows of today with an absent code
VcAbsent == {s \in DOMAIN agg.marks : agg.marks[s] \in AbsentCodes}

\* POST /api/send-daily-email
SendDailyEmail ==
  /\ agg' = [agg EXCEPT !.mail = [sender |-> "route", rosters |-> Rosters(VcAbsent)]]
  /\ UNCHANGED <<store, now, ps, feed, budget, faultsLeft, alert>>

\* the send-asp-daily-email function
EdgeDailyEmail ==
  /\ agg' = [agg EXCEPT !.mail = [sender |-> "edge", rosters |-> Rosters(VcAbsent)]]
  /\ UNCHANGED <<store, now, ps, feed, budget, faultsLeft, alert>>

\* const [classes, setClasses] = useState<ASPClassWithCount[]>([])
NoClassList == [loaded |-> FALSE, rows |-> <<>>]

\* asp_users: nobody receives the daily email
NoUsers == <<>>

\* no invocation of the daily email yet
NoDelivery ==
  [sender |-> "none", today |-> "none", isTest |-> FALSE, recipientsOk |-> TRUE,
   classesOk |-> TRUE, sendOk |-> TRUE, calls |-> 0, response |-> "none"]

\* no roster printed yet
NoPrint == [done |-> FALSE, rows |-> <<>>, total |-> 0, present |-> 0, absent |-> 0]

\* the tables beside a Reconciler: one known student, nobody absent, no page open
QuietAgg ==
  [students |-> [s \in Students |-> Identity("Ann", "Smith")],
   marks |-> [s \in Students |-> 0],
   manualAbsences |-> {},
   page |-> EmptyPage(0),
   mail |-> NoMail,
   classList |-> NoClassList,
   users |-> NoUsers,
   resendApiKey |-> TRUE,
   delivery |-> NoDelivery,
   printed |-> NoPrint]

\* ------------------------------------------------ class detail page handlers
Idle == \A q \in Procs : ps[q].pc = "idle"

\* the audit insert is made only after the write succeeded; it may fail in its turn
AuditOutcomes(written) == IF written /\ faultsLeft > 0 THEN {TRUE, FALSE} ELSE {TRUE}

\* handleAddStudent: insert the manual row, then the audit entry
HandleAddStudent ==
  /\ Idle
  /\ manualLeft > 0
  /\ \E classId \in Ids(classes), newStudentId \in Students,
        newEnrollmentType \in ManualTypes, ok \in Outcomes :
       LET done == ok /\ ~HasEnrollment(enrollments, classId, newStudentId)
       IN \E okAudit \in AuditOutcomes(done) :
          /\ faultsLeft' = IF ok /\ okAudit THEN faultsLeft ELSE faultsLeft - 1
          /\ enrollments' =
               IF done
                 THEN Append(enrollments,
                             [class_id |-> classId, student_person_id |-> newStudentId,
                              status |-> "active", source |-> "manual",
                              enrollment_type |-> newEnrollmentType,
                              removal_reason |-> "null", updated_at |-> now + 1])
                 ELSE enrollments
          /\ audit' = IF done /\ okAudit
                        THEN Append(audit, [table_name |-> "asp_enrollments",
                                            record_id |-> Len(enrollments) + 1,
                                            action |-> "insert",
                                            values |-> newEnrollmentType])
                        ELSE audit
          /\ alert' = IF done THEN "none" ELSE "Failed to add student"
          /\ agg' = IF done
                      THEN [agg EXCEPT !.page = LoadEnrollments(PageOf(classId), enrollments')]
                      ELSE agg
  /\ manualLeft' = manualLeft - 1
  /\ now' = now + 1
  /\ UNCHANGED <<classes, systemStatus, ps, feed, passesLeft>>

\* the rows the page lists: status = 'active'
ActiveEnrollments == {i \in Ids(enrollments) : enrollments[i].status = "active"}

\* a page that logs the removal without the id of the row
HandleRemoveStudentMislogged ==
  /\ Idle
  /\ manualLeft > 0
  /\ \E id \in ActiveEnrollments, ok \in Outcomes :
     \E okAudit \in AuditOutcomes(ok) :
       /\ faultsLeft' = IF ok /\ okAudit THEN faultsLeft ELSE faultsLeft - 1
       /\ enrollments' =
            IF ok THEN [enrollments EXCEPT ![id] =
                          [@ EXCEPT !.status = "removed", !.removal_reason = "manual_removal",
                                    !.updated_at = now + 1]]
                  ELSE enrollments
       /\ audit' = IF ok /\ okAudit
                     THEN Append(audit, [table_name |-> "asp_enrollments", record_id |-> 0,
                                         action |-> "delete",
                                         values |-> enrollments[id].enrollment_type])
                     ELSE audit
       /\ alert' = IF ok THEN "none" ELSE "Failed to remove student"
       /\ agg' = IF ok
                   THEN [agg EXCEPT !.page =
                           LoadEnrollments(PageOf(enrollments[id].class_id), enrollments')]
                   ELSE agg
  /\ manualLeft' = manualLeft - 1
  /\ now' = now + 1
  /\ UNCHANGED <<classes, systemStatus, ps, feed, passesLeft>>

\* handleRemoveStudent: the soft delete, then the audit entry
HandleRemoveStudent ==
  /\ Idle
  /\ manualLeft > 0
  /\ \E id \in ActiveEnrollments, ok \in Outcomes :
     \E okAudit \in AuditOutcomes(ok) :
       /\ faultsLeft' = IF ok /\ okAudit THEN faultsLeft ELSE faultsLeft - 1
       /\ enrollments' =
            IF ok THEN [enrollments EXCEPT ![id] =
                          [@ EXCEPT !.status = "removed", !.removal_reason = "manual_removal",
                                    !.updated_at = now + 1]]
                  ELSE enrollments
       /\ audit' = IF ok /\ okAudit
                     THEN Append(audit, [table_name |-> "asp_enrollments", record_id |-> id,
                                         action |-> "delete",
                                         values |-> enrollments[id].enrollment_type])
                     ELSE audit
       /\ alert' = IF ok THEN "none" ELSE "Failed to remove student"
       /\ agg' = IF ok
                   THEN [agg EXCEPT !.page =
                           LoadEnrollments(PageOf(enrollments[id].class_id), enrollments')]
                   ELSE agg
  /\ manualLeft' = manualLeft - 1
  /\ now' = now + 1
  /\ UNCHANGED <<classes, systemStatus, ps, feed, passesLeft>>

\* handleUpdateEnrollment: the edit, then the audit entry
HandleUpdateEnrollment ==
  /\ Idle
  /\ manualLeft > 0
  /\ \E id \in ActiveEnrollments, newEnrollmentType \in ManualTypes,
        ok \in Outcomes :
     \E okAudit \in AuditOutcomes(ok) :
       /\ faultsLeft' = IF ok /\ okAudit THEN faultsLeft ELSE faultsLeft - 1
       /\ enrollments' =
            IF ok THEN [enrollments EXCEPT ![id] =
                          [@ EXCEPT !.enrollment_type = newEnrollmentType,
                                    !.updated_at = now + 1]]
                  ELSE enrollments
       /\ audit' = IF ok /\ okAudit
                     THEN Append(audit, [table_name |-> "asp_enrollments", record_id |-> id,
                                         action |-> "update", values |-> newEnrollmentType])
                     ELSE audit
       /\ alert' = IF ok THEN "none" ELSE "Failed to update enrollment"
       /\ agg' = IF ok
                   THEN [agg EXCEPT !.page =
                           LoadEnrollments(PageOf(enrollments[id].class_id), enrollments')]
                   ELSE agg
  /\ manualLeft' = manualLeft - 1
  /\ now' = now + 1
  /\ UNCHANGED <<classes, systemStatus, ps, feed, passesLeft>>

Init ==
  /\ classes = <<>>
  /\ enrollments = <<>>
  /\ audit = <<>>
  /\ systemStatus = 0
  /\ now = 0
  /\ ps = [p \in Procs |-> IdleLocals]
  /\ feed = FreeFeed
  /\ passesLeft = MaxPasses
  /\ manualLeft = MaxManual
  /\ faultsLeft = 0
  /\ alert = "none"
  /\ agg = QuietAgg

\* the steps of the Reconciler passes
NextPass ==
  \E p \in Procs :
    \/ RouteStart(p)
    \/ RouteLoadClasses(p)
    \/ RouteUpsertClass(p)
    \/ RouteClassesDone(p)
    \/ RouteDeactivateClass(p)
    \/ RouteDeactivateClassesDone(p)
    \/ RouteUpsertEnrollment(p)
    \/ RouteSelectEnrollments(p)
    \/ RouteDeactivateEnrollment(p)
    \/ RouteSystemStatus(p)
    \/ RouteAudit(p)
    \/ ScriptStart(p)
    \/ ScriptTransformClass(p)
    \/ ScriptUpsertClasses(p)
    \/ ScriptGetClassIdMap(p)
    \/ ScriptFetchExisting(p)
    \/ ScriptPrepareEnrollment(p)
    \/ ScriptUpsertEnrollments(p)
    \/ ScriptDeactivateEnrollment(p)
    \/ ScriptFetchActiveClasses(p)
    \/ ScriptDeactivateClass(p)
    \/ ScriptAudit(p)
    \/ Return(p)

Next ==
  \/ HandleAddStudent
  \/ HandleRemoveStudent
  \/ HandleUpdateEnrollment
  \/ NextPass

\* passes and manual edits over a store whose calls all succeed
Spec == Init /\ [][Next]_vars

\* passes over a store of which MaxFaults calls fail
InitFault ==
  /\ classes = <<>>
  /\ enrollments = <<>>
  /\ audit = <<>>
  /\ systemStatus = 0
  /\ now = 0
  /\ ps = [p \in Procs |-> IdleLocals]
  /\ feed = FreeFeed
  /\ passesLeft = MaxPasses
  /\ manualLeft = 0
  /\ faultsLeft = MaxFaults
  /\ alert = "none"
  /\ agg = QuietAgg

SpecFault == InitFault /\ [][NextPass]_vars

\* the sequences of at most n elements of S
SeqsUpTo(S, n) == UNION {[1..k -> S] : k \in 0..n}

\* the feeds a source may return: distinct class ids, any roster rows
Feeds ==
  [ fixed : {TRUE}, kind : Kinds, runs : {0},
    classRows : {c \in SeqsUpTo(ClassIds, MaxFeedLen) : ~HasDuplicates(c)},
    enrollmentRows : SeqsUpTo([vc_class_id : ClassIds, student_person_id : Students,
                               enrollment_status : EnrollmentStatuses], MaxFeedLen) ]

\* rows disappear from the source between two passes; MaxPasses passes on
\* the shorter feed can still run
DropFeedRows ==
  /\ Idle
  /\ feed.fixed
  /\ feed.runs >= 1
  /\ passesLeft >= MaxPasses
  /\ \E k \in 0..Len(feed.classRows), m \in 0..Len(feed.enrollmentRows) :
       /\ k + m < Len(feed.classRows) + Len(feed.enrollmentRows)
       /\ feed' = [feed EXCEPT !.classRows = SubSeq(@, 1, k),
                                !.enrollmentRows = SubSeq(@, 1, m),
                                !.runs = 0]
  /\ UNCHANGED <<store, now, ps, budget, faultsLeft, alert, agg>>

\* passes of one Reconciler on a feed that changes at most once
InitIdem ==
  /\ classes = <<>>
  /\ enrollments = <<>>
  /\ audit = <<>>
  /\ systemStatus = 0
  /\ now = 0
  /\ ps = [p \in Procs |-> IdleLocals]
  /\ feed \in Feeds
  /\ passesLeft = MaxPasses + 1
  /\ manualLeft = 0
  /\ faultsLeft = 0
  /\ alert = "none"
  /\ agg = QuietAgg

NextIdem == DropFeedRows \/ NextPass

SpecIdem == InitIdem /\ [][NextIdem]_vars

\* the cron-triggered edge function: stamps the active classes, then logs
EdgeSync ==
  /\ Idle
  /\ passesLeft > 0
  /\ \E ok \in Outcomes :
     \E okAudit \in AuditOutcomes(ok) :
       /\ faultsLeft' = IF ok /\ okAudit THEN faultsLeft ELSE faultsLeft - 1
       /\ classes' =
            IF ok THEN [i \in Ids(classes) |->
                          IF classes[i].is_active
                            THEN [classes[i] EXCEPT !.last_vc_sync = now + 1]
                            ELSE classes[i]]
                  ELSE classes
       /\ audit' = IF ok /\ okAudit
                     THEN Append(audit, [table_name |-> "asp_classes", record_id |-> 0,
                                         action |-> "sync",
                                         values |-> [sync_time |-> now + 1]])
                     ELSE audit
  /\ now' = now + 1
  /\ passesLeft' = passesLeft - 1
  /\ UNCHANGED <<enrollments, systemStatus, ps, feed, manualLeft, alert, agg>>

\* the store one pass of the route leaves from the feed [C1, C2], [(C1, 1)]
SyncedClasses ==
  << [vc_class_id |-> "C1", is_active |-> TRUE, last_vc_sync |-> 0],
     [vc_class_id |-> "C2", is_active |-> TRUE, last_vc_sync |-> 0] >>

SyncedEnrollments ==
  << [class_id |-> 1, student_person_id |-> 1, status |-> "active", source |-> "veracross",
      enrollment_type |-> "registered", removal_reason |-> "null", updated_at |-> 1] >>

SyncedAudit ==
  << [table_name |-> "system", record_id |-> 0, action |-> "sync",
      values |-> [classes_inserted |-> 2, classes_updated |-> 0, classes_deactivated |-> 0,
                  enrollments_upserted |-> 1, enrollments_deactivated |-> 0, errors |-> 0]] >>

\* after that pass: one more sync, manual edits around it, and store calls
\* that may fail
InitAudit ==
  /\ classes = SyncedClasses
  /\ enrollments = SyncedEnrollments
  /\ audit = SyncedAudit
  /\ systemStatus = 1
  /\ now = 1
  /\ ps = [p \in Procs |-> IdleLocals]
  /\ feed = FreeFeed
  /\ passesLeft = MaxPasses - 1
  /\ manualLeft = MaxManual + 1
  /\ faultsLeft = MaxFaults
  /\ alert = "none"
  /\ agg = QuietAgg

NextAudit ==
  \/ HandleAddStudent
  \/ HandleRemoveStudent
  \/ HandleUpdateEnrollment
  \/ EdgeSync
  \/ NextPass

SpecAudit == InitAudit /\ [][NextAudit]_vars

\* ------------------------------------------------------- overlapping passes
OverlapProcs == {1, 2}

\* two passes of one Reconciler over the store a first pass left; each reads
\* the same feed, and the second may start at any step of the first
InitOverlap ==
  /\ classes = SyncedClasses
  /\ enrollments = SyncedEnrollments
  /\ audit = SyncedAudit
  /\ systemStatus = 1
  /\ now = 1
  /\ ps = [p \in OverlapProcs |-> IdleLocals]
  /\ feed \in Feeds
  /\ passesLeft = MaxPasses
  /\ manualLeft = 0
  /\ faultsLeft = 0
  /\ alert = "none"
  /\ agg = QuietAgg

NextOverlap ==
  \E p \in OverlapProcs :
    \/ RouteBegin(p)
    \/ RouteLoadClasses(p)
    \/ RouteUpsertClass(p)
    \/ RouteClassesDone(p)
    \/ RouteDeactivateClass(p)
    \/ RouteDeactivateClassesDone(p)
    \/ RouteUpsertEnrollment(p)
    \/ RouteSelectEnrollments(p)
    \/ RouteDeactivateEnrollment(p)
    \/ RouteSystemStatus(p)
    \/ RouteAudit(p)
    \/ ScriptBegin(p)
    \/ ScriptTransformClass(p)
    \/ ScriptUpsertClasses(p)
    \/ ScriptGetClassIdMap(p)
    \/ ScriptFetchExisting(p)
    \/ ScriptPrepareEnrollment(p)
    \/ ScriptUpsertEnrollments(p)
    \/ ScriptDeactivateEnrollment(p)
    \/ ScriptFetchActiveClasses(p)
    \/ ScriptDeactivateClass(p)
    \/ ScriptAudit(p)
    \/ Return(p)

SpecOverlap == InitOverlap /\ [][NextOverlap]_vars

\* ------------------------------------------------- the rosters of a stored day
MaxRosterRows == 2

RosterStudents == {1, 2}

FirstNames == {"Ann", "Bob"}

LastNames == {"adams", "smith", "Smith"}

\* no attendance row, a row with a present code, a row with an absent code
Marks == {0, 1, 29}

RosterRow(classId, studentPersonId, status) ==
  [class_id |-> classId, student_person_id |-> studentPersonId, status |-> status,
   source |-> "veracross", enrollment_type |-> "enrolled",
   removal_reason |-> IF status = "active" THEN "null" ELSE "no_longer_in_veracross",
   updated_at |-> 1]

\* the enrollment tables: one row per class and student at most
RosterEnrollments ==
  LET rows == {RosterRow(c, s, st) : c \in Ids(SyncedClasses), s \in RosterStudents,
                                     st \in {"active", "removed"}}
  IN {e \in SeqsUpTo(rows, MaxRosterRows) :
        \A i, j \in Ids(e) :
          e[i].class_id = e[j].class_id /\ e[i].student_person_id = e[j].student_person_id
            => i = j}

Identities == {Identity(f, l) : f \in FirstNames, l \in LastNames} \cup {NoStudent}

\* a day of the stored program: the classes of a sync, any enrollments, Bob
\* Smith or nobody as student 1, any identity of student 2, any attendance
\* marks, no page open and no email sent
InitRoster ==
  /\ classes = SyncedClasses
  /\ enrollments \in RosterEnrollments
  /\ audit = SyncedAudit
  /\ systemStatus = 1
  /\ now = 1
  /\ ps = [p \in Procs |-> IdleLocals]
  /\ feed = FreeFeed
  /\ passesLeft = 0
  /\ manualLeft = 0
  /\ faultsLeft = MaxFaults
  /\ alert = "none"
  /\ agg \in [students : {ids \in [RosterStudents -> Identities] :
                             ids[1] \in {Identity("Bob", "Smith"), NoStudent}},
              marks : [RosterStudents -> Marks],
              manualAbsences : {{}},
              page : {EmptyPage(0)},
              mail : {NoMail},
              classList : {NoClassList},
              users : {NoUsers},
              resendApiKey : {TRUE},
              delivery : {NoDelivery},
              printed : {NoPrint}]

NextRoster == OpenClassPage \/ ToggleManualAbsence \/ SendDailyEmail \/ EdgeDailyEmail

SpecRoster == InitRoster /\ [][NextRoster]_vars

\* ------------------------------------------------------------------
\* Properties of the Reconciler (spec.md, section 8)
\* ------------------------------------------------------------------

\* the pass of p has reached its "return" with success
PassDone(p) == ps[p].pc = "done"

\* ... and every store call of the pass answered without error
CleanDone(p) == PassDone(p) /\ ~ps[p].faulty

\* the (external class id, student) pair an enrollment row stands for
VcKey(row) == <<classes[row.class_id].vc_class_id, row.student_person_id>>

\* C1 (provenance preservation): an enrollment row whose provenance is manual
\* before a pass is the same row, field for field, when the pass returns;
\* also when the feed names the same (class, student) pair.
C1_ManualRowsPreserved ==
  \A p \in Procs :
    PassDone(p) =>
      \A i \in Ids(ps[p].preEnrollments) :
        ps[p].preEnrollments[i].source = "manual" =>
          enrollments[i] = ps[p].preEnrollments[i]

\* a class row without its last-sync stamp
NoSyncStamp(row) == [row EXCEPT !.last_vc_sync = 0]

\* C2 (idempotence): a pass that follows a completed pass on the same feed,
\* with no other write in between, creates no class or enrollment row and
\* leaves every field of every row as it was, the last-sync stamp excepted.
C2_SecondPassChangesNothing ==
  \A p \in Procs :
    (PassDone(p) /\ feed.fixed /\ feed.runs >= 1) =>
      /\ Len(classes) = Len(ps[p].preClasses)
      /\ Len(enrollments) = Len(ps[p].preEnrollments)
      /\ \A i \in Ids(ps[p].preClasses) :
           NoSyncStamp(classes[i]) = NoSyncStamp(ps[p].preClasses[i])
      /\ \A i \in Ids(ps[p].preEnrollments) :
           enrollments[i] = ps[p].preEnrollments[i]

\* C3 (no hard delete): no step of a pass and no manual action deletes a class
\* or enrollment row: every row id of either table is still there after the
\* step and still names the same class / the same (class, student) pair.
C3_NoHardDelete ==
  [][ /\ Len(classes') >= Len(classes)
      /\ Len(enrollments') >= Len(enrollments)
      /\ \A i \in Ids(classes) : classes'[i].vc_class_id = classes[i].vc_class_id
      /\ \A i \in Ids(enrollments) :
           /\ enrollments'[i].class_id = enrollments[i].class_id
           /\ enrollments'[i].student_person_id = enrollments[i].student_person_id
    ]_vars

\* C3 happens: a class was retired by a pass, an enrollment was retired by a
\* pass and another removed by hand, and the rows are all still stored
C3_Witness ==
  /\ \E c \in Ids(classes) : ~classes[c].is_active
  /\ \E i \in Ids(enrollments) : enrollments[i].removal_reason = "Removed from Veracross"
  /\ \E j \in Ids(enrollments) : enrollments[j].removal_reason = "manual_removal"

\* C4 (authoritative-source reconciliation): after a pass, a row that was
\* external and active before it is active exactly when its (class, student)
\* key is in the feed of the pass; when the key is absent the row has status
\* removed, a removal reason, and provenance still external.
C4_ExternalFollowsFeed ==
  \A p \in Procs :
    CleanDone(p) =>
      \A i \in Ids(ps[p].preEnrollments) :
        (ps[p].preEnrollments[i].source = "veracross"
           /\ ps[p].preEnrollments[i].status = "active") =>
          /\ enrollments[i].status = "active" <=> VcKey(enrollments[i]) \in ps[p].fedKeys
          /\ VcKey(enrollments[i]) \notin ps[p].fedKeys =>
               /\ enrollments[i].status = "removed"
               /\ enrollments[i].removal_reason # "null"
               /\ enrollments[i].source = "veracross"

\* C5 (status domain): every enrollment row has a status among active,
\* removed, expired and a provenance among veracross, manual.
C5_StatusDomain ==
  \A i \in Ids(enrollments) :
    /\ enrollments[i].status \in {"active", "removed", "expired"}
    /\ enrollments[i].source \in {"veracross", "manual"}

\* C6 (monotonic deactivation): a row whose status is removed before a pass is
\* not active when the pass returns.
C6_RemovedStaysRemoved ==
  \A p \in Procs :
    PassDone(p) =>
      \A i \in Ids(ps[p].preEnrollments) :
        ps[p].preEnrollments[i].status = "removed" => enrollments[i].status # "active"


\* the external class ids of a class table
VcClassIds(tbl) == {tbl[i].vc_class_id : i \in Ids(tbl)}

\* the set of class ids the pass has marked as seen in the feed
Seen(l) == IF l.kind = "route" THEN l.bqClassIds ELSE Range(l.newClasses)

\* C7 (class reconciliation): with F the class ids of the feed and S those of
\* the store before the pass, after the pass every class of F and S is the same
\* row, active; every class of F not in S is one new active row; every class
\* of S not in F is inactive; no other row appears; and the seen set is F.
C7_ClassReconciliation ==
  \A p \in Procs :
    CleanDone(p) =>
      LET F == ps[p].fedClassIds
          pre == ps[p].preClasses
          S == VcClassIds(pre)
      IN /\ Len(classes) = Len(pre) + Cardinality(F \ S)
         /\ \A i \in Ids(pre) :
              /\ classes[i].vc_class_id = pre[i].vc_class_id
              /\ classes[i].is_active <=> pre[i].vc_class_id \in F
         /\ \A vc \in F \ S :
              \E i \in Ids(classes) \ Ids(pre) :
                classes[i].vc_class_id = vc /\ classes[i].is_active
         /\ Seen(ps[p]) = F

\* C7 happens: a pass has ended whose feed shares a class with the store,
\* brings a new one, and lacks one the store held as active
C7_Witness ==
  \E p \in Procs :
    /\ CleanDone(p)
    /\ ps[p].fedClassIds \cap VcClassIds(ps[p].preClasses) # {}
    /\ ps[p].fedClassIds \ VcClassIds(ps[p].preClasses) # {}
    /\ \E i \in Ids(ps[p].preClasses) :
         /\ ps[p].preClasses[i].is_active
         /\ ps[p].preClasses[i].vc_class_id \notin ps[p].fedClassIds

\* C8 (coexistence): a manual active row whose (class, student) pair the feed
\* of a pass also names is still a manual row after the pass, next to a
\* distinct external active row of the same pair.
C8_ManualAndExternalCoexist ==
  \A p \in Procs :
    CleanDone(p) =>
      \A i \in Ids(ps[p].preEnrollments) :
        (ps[p].preEnrollments[i].source = "manual"
           /\ ps[p].preEnrollments[i].status = "active"
           /\ VcKey(ps[p].preEnrollments[i]) \in ps[p].fedKeys) =>
          /\ enrollments[i].source = "manual"
          /\ \E j \in Ids(enrollments) \ {i} :
               /\ VcKey(enrollments[j]) = VcKey(enrollments[i])
               /\ enrollments[j].source = "veracross"
               /\ enrollments[j].status = "active"

\* the enrollment loop of p reads one more feed row in this step
ReadsEnrollmentRow(p) ==
  /\ ps[p].pc = "enrollments"
  /\ ps'[p].n = ps[p].n + 1

\* the step skips the row it reads: nothing is stored or queued for it, one
\* error citing its class id is recorded, and the loop goes on
SkipsRow(p) ==
  /\ store' = store
  /\ ps'[p].pc = "enrollments"
  /\ ps'[p].newEnrollments = ps[p].newEnrollments
  /\ ps'[p].currentKeys = ps[p].currentKeys
  /\ ps'[p].bqEnrollmentKeys = ps[p].bqEnrollmentKeys
  /\ ps'[p].enrollmentsUpserted = ps[p].enrollmentsUpserted
  /\ ps'[p].classIdMap = ps[p].classIdMap
  /\ Len(ps'[p].errors) = Len(ps[p].errors) + 1
  /\ ps'[p].errors[Len(ps'[p].errors)].op = "no class"
  /\ ps'[p].errors[Len(ps'[p].errors)].vc_class_id = ps'[p].lastRow.vc_class_id
  /\ SubSeq(ps'[p].errors, 1, Len(ps[p].errors)) = ps[p].errors

ErrorsOf(l, ops) == {e \in Ids(l.errors) : l.errors[e].op \in ops}

\* the class ids of the feed the store does not hold as an active class
LostClasses(l) ==
  {vc \in l.fedClassIds : ~\E i \in Ids(classes) :
                             classes[i].vc_class_id = vc /\ classes[i].is_active}

\* the enrollment keys of the feed, of a stored class, that the store does
\* not hold as an active external enrollment
LostEnrollments(l) ==
  {k \in l.fedKeys :
     /\ HasClass(classes, k[1])
     /\ ~\E i \in Ids(enrollments) :
           /\ VcKey(enrollments[i]) = k
           /\ enrollments[i].source = "veracross"
           /\ enrollments[i].status = "active"}

\* C10 (partial failure): a failed write costs the feed row it was for and no
\* other: when the pass returns, the feed rows that are not persisted are no
\* more than the failures the pass has reported, for classes and enrollments.
C10_FailureCostsOneRow ==
  \A p \in Procs :
    PassDone(p) =>
      /\ Cardinality(LostClasses(ps[p]))
           <= Cardinality(ErrorsOf(ps[p], {"insert class", "update class", "class batch"}))
      /\ Cardinality(LostEnrollments(ps[p]))
           <= Cardinality(ErrorsOf(ps[p], {"no class", "upsert enrollment",
                                           "enrollment batch"}))


\* C11 (connectivity abort): a pass whose load of the existing classes or of
\* the active external enrollments has failed is aborted: it is in its fatal
\* end and runs no later step.
C11_LoadFailureAborts ==
  \A p \in Procs :
    (ps[p].existingClassesNull \/ ps[p].existingEnrollmentsNull) => ps[p].pc = "failed"


\* the counts the audit entry of a pass is to carry
CountNames ==
  {"classes_inserted", "classes_updated", "classes_deactivated",
   "enrollments_upserted", "enrollments_deactivated", "errors"}

\* C12 (sync audit entry): a pass that ends as successful or partially
\* successful has appended exactly one audit entry, of action sync, that
\* carries the counts of inserted, updated and deactivated classes, of upserted
\* and deactivated enrollments and of errors; a pass that ends in a fatal
\* error has appended none.
C12_OneSyncEntryWithCounts ==
  \A p \in Procs :
    /\ ps[p].pc = "failed" => audit = ps[p].preAudit
    /\ PassDone(p) =>
         /\ Len(audit) = Len(ps[p].preAudit) + 1
         /\ SubSeq(audit, 1, Len(ps[p].preAudit)) = ps[p].preAudit
         /\ audit[Len(audit)].action = "sync"
         /\ CountNames \subseteq DOMAIN audit[Len(audit)].values
         /\ audit[Len(audit)].values.classes_inserted
              = Len(classes) - Len(ps[p].preClasses)
         /\ audit[Len(audit)].values.errors = Len(ps[p].errors)


\* C13 (append-only audit log): every step of a pass, of the edge function and
\* of a manual action leaves the entries already in the audit log where and as
\* they are; the log after the step is an extension of the log before it.
C13_AuditAppendOnly ==
  [][ /\ Len(audit') >= Len(audit)
      /\ SubSeq(audit', 1, Len(audit)) = audit
    ]_vars

\* C13 happens: after the first sync entry the log has received an entry of a
\* manual action and an entry of a later sync
C13_Witness ==
  /\ Len(audit) >= 3
  /\ \E i \in 2..Len(audit) : audit[i].table_name = "asp_enrollments"
  /\ \E j \in 2..Len(audit) : audit[j].action = "sync"


\* the step of p is the audit write that ends its pass
AuditStep(p) ==
  \/ ps[p].kind = "route" /\ ps[p].pc = "audit"
  \/ /\ ps[p].kind = "script" /\ ps[p].pc = "deactivate classes"
     /\ ps[p].n = Len(ps[p].toDeactivate)

\* C14 (audit failure is harmless): a manual edit whose row is written while
\* no audit entry is appended reports success, a manual edit that reports a
\* failure has written nothing, and a pass whose audit write appends nothing
\* leaves the class and enrollment rows as written and ends as a success.
C14_AuditFailureHarmless ==
  [][ /\ (manualLeft' < manualLeft /\ enrollments' # enrollments /\ audit' = audit)
           => alert' = "none"
      /\ (manualLeft' < manualLeft /\ alert' # "none") => enrollments' = enrollments
      /\ \A p \in Procs :
           (AuditStep(p) /\ audit' = audit) =>
             /\ classes' = classes
             /\ enrollments' = enrollments
             /\ ps'[p].pc = "done"
    ]_vars


\* the step is one manual edit of the class page
ManualStep == manualLeft' < manualLeft

\* the enrollment rows the step has inserted or changed
Affected ==
  {i \in Ids(enrollments') : i \notin Ids(enrollments) \/ enrollments'[i] # enrollments[i]}

\* what the step has done to row i
MutationOf(i) ==
  IF i \notin Ids(enrollments) THEN "insert"
  ELSE IF enrollments'[i].status = "removed" /\ enrollments[i].status # "removed"
         THEN "delete"
         ELSE "update"

\* the step has appended exactly one audit entry, the one that describes row i
Paired(i) ==
  /\ Len(audit') = Len(audit) + 1
  /\ SubSeq(audit', 1, Len(audit)) = audit
  /\ audit'[Len(audit')].table_name = "asp_enrollments"
  /\ audit'[Len(audit')].record_id = i
  /\ audit'[Len(audit')].action = MutationOf(i)

AbsentOnDay(classId, s) ==
  agg.marks[s] \in AbsentCodes \/ <<classId, s>> \in agg.manualAbsences

\* the class page marks a listed student absent iff absent on the day
PageAbsenceUnion ==
  \A s \in Listed : s \in PageAbsent <=> AbsentOnDay(agg.page.classId, s)

\* the last daily email marks an entry absent iff its student is absent on the day
MailAbsenceUnion ==
  \A r \in Ids(agg.mail.rosters) :
    \A k \in Ids(agg.mail.rosters[r].students) :
      LET entry == agg.mail.rosters[r].students[k]
      IN entry.isAbsent <=>
           AbsentOnDay(agg.mail.rosters[r].classId,
                       enrollments[entry.enrollment_id].student_person_id)

\* C16: in every roster (the class page and its print view, the daily email) a
\* student is marked absent if and only if the student has an attendance mark
\* with an absent code or a manual absence for the class
C16_AbsenceUnion == PageAbsenceUnion /\ MailAbsenceUnion


\* surname then first name, the case of the letters left aside: a is not after b
InNameOrder(lastA, firstA, lastB, firstB) ==
  \/ PrimaryRank(lastA) < PrimaryRank(lastB)
  \/ PrimaryRank(lastA) = PrimaryRank(lastB) /\ PrimaryRank(firstA) <= PrimaryRank(firstB)

\* the entries of the class page are in name order
PageInOrder ==
  \A k \in Ids(agg.page.enrollments) \ {1} :
    InNameOrder(agg.page.enrollments[k - 1].student.last_name,
                agg.page.enrollments[k - 1].student.first_name,
                agg.page.enrollments[k].student.last_name,
                agg.page.enrollments[k].student.first_name)

\* the entries of each roster of the last daily email are in name order
MailInOrder ==
  \A r \in Ids(agg.mail.rosters) :
    \A k \in Ids(agg.mail.rosters[r].students) \ {1} :
      InNameOrder(Part(agg.mail.rosters[r].students[k - 1].name, 1),
                  Part(agg.mail.rosters[r].students[k - 1].name, 2),
                  Part(agg.mail.rosters[r].students[k].name, 1),
                  Part(agg.mail.rosters[r].students[k].name, 2))

\* C17: every roster is sorted by surname and, among equal surnames, by first
\* name, both compared without regard to case
C17_RosterOrder == PageInOrder /\ MailInOrder


\* the active rows of a class in the store
ActiveRowsIn(classId) ==
  {i \in Ids(enrollments) : enrollments[i].class_id = classId /\ enrollments[i].status = "active"}

\* the class page has one entry for each active row of its class and no other;
\* an entry shows the names and grade of the identity table, or Unknown,
\* Student and grade 0 when the table has no row for the student
PageOneEntryPerRow ==
  agg.page.classId # 0 =>
    /\ \A j, k \in Ids(agg.page.enrollments) :
         agg.page.enrollments[j].id = agg.page.enrollments[k].id => j = k
    /\ {agg.page.enrollments[k].id : k \in Ids(agg.page.enrollments)}
         = ActiveRowsIn(agg.page.classId)
    /\ \A k \in Ids(agg.page.enrollments) :
         LET e == agg.page.enrollments[k]
             s == enrollments[e.id].student_person_id
         IN /\ e.student_person_id = s
            /\ e.student.first_name =
                 IF agg.students[s].found THEN agg.students[s].first_name ELSE "Unknown"
            /\ e.student.last_name =
                 IF agg.students[s].found THEN agg.students[s].last_name ELSE "Student"
            /\ e.student.grade_level =
                 IF agg.students[s].found THEN agg.students[s].grade_level ELSE 0

\* the same for every roster of the last daily email, where the placeholder
\* is the name "Unknown Student"
MailOneEntryPerRow ==
  \A r \in Ids(agg.mail.rosters) :
    LET roster == agg.mail.rosters[r]
    IN /\ \A j, k \in Ids(roster.students) :
            roster.students[j].enrollment_id = roster.students[k].enrollment_id => j = k
       /\ {roster.students[k].enrollment_id : k \in Ids(roster.students)}
            = ActiveRowsIn(roster.classId)
       /\ \A k \in Ids(roster.students) :
            LET s == enrollments[roster.students[k].enrollment_id].student_person_id
            IN /\ roster.students[k].name =
                    IF agg.students[s].found
                      THEN <<agg.students[s].last_name, agg.students[s].first_name>>
                      ELSE <<"Unknown Student">>
               /\ roster.students[k].grade =
                    IF agg.students[s].found THEN agg.students[s].grade_level ELSE 0

C19_ExternalIdUnique ==
  \A i, j \in Ids(classes) : classes[i].vc_class_id = classes[j].vc_class_id => i = j

\* two overlapping passes of the route read the same new class: one inserted
\* it, the insert of the other was refused; an inactive class is stored too
C19_Witness ==
  /\ \E p, q \in OverlapProcs :
       /\ p # q
       /\ ps[p].kind = "route" /\ ps[q].kind = "route"
       /\ ps[p].classesInserted > 0
       /\ \E k \in Ids(ps[q].errors) : ps[q].errors[k].op = "insert class"
  /\ \E i \in Ids(classes) : ~classes[i].is_active


\* C20: whatever passes and manual edits ran, and also when the feed lists a
\* pair twice, at most one row of asp_enrollments with source veracross and
\* status active exists for a class and a student
C20_OneActiveExternalRow ==
  \A i, j \in Ids(enrollments) :
    /\ enrollments[i].class_id = enrollments[j].class_id
    /\ enrollments[i].student_person_id = enrollments[j].student_person_id
    /\ enrollments[i].source = "veracross" /\ enrollments[j].source = "veracross"
    /\ enrollments[i].status = "active" /\ enrollments[j].status = "active"
    => i = j

\* after a manual edit, a pass of the route has read the same pair twice and
\* the row of the pair is stored
C20_Witness ==
  /\ manualLeft < MaxManual
  /\ \E p \in Procs :
       /\ ps[p].kind = "route" /\ ps[p].pc = "enrollments"
       /\ ps[p].n = 2 /\ Cardinality(ps[p].fedKeys) = 1
       /\ ps[p].enrollmentsUpserted = 2
  /\ \E i \in Ids(enrollments) :
       enrollments[i].source = "veracross" /\ enrollments[i].status = "active"


\* ------------------------------------------------------- a pass run alone
\* a table without its timestamps
ClassesNoTimes(tbl) == [i \in Ids(tbl) |-> [tbl[i] EXCEPT !.last_vc_sync = 0]]

EnrollmentsNoTimes(tbl) == [i \in Ids(tbl) |-> [tbl[i] EXCEPT !.updated_at = 0]]

\* step 3 of the route when every call succeeds and no other pass writes
RECURSIVE RouteClasses(_, _)
RouteClasses(tbl, rows) ==
  IF rows = <<>> THEN tbl
  ELSE LET vc == Head(rows)
           next == IF HasClass(tbl, vc) THEN UpdateClass(tbl, ClassIdOf(tbl, vc), vc)
                                        ELSE InsertClass(tbl, vc)
       IN RouteClasses(next, Tail(rows))

\* steps 3 and 4 of the route
RouteClassesAlone(tbl, rows) ==
  LET up == RouteClasses(tbl, rows)
  IN [i \in Ids(up) |->
        IF i <= Len(tbl) /\ tbl[i].vc_class_id \notin Range(rows)
          THEN [up[i] EXCEPT !.is_active = FALSE]
          ELSE up[i]]

\* step 5 of the route; cls is the class table after step 3
RECURSIVE RouteEnrollments(_, _, _, _)
RouteEnrollments(tbl, cls, rows, ts) ==
  IF rows = <<>> THEN tbl
  ELSE LET row == Head(rows)
           next == IF HasClass(cls, row.vc_class_id)
                     THEN UpsertEnrollment(tbl, ClassIdOf(cls, row.vc_class_id),
                                           row.student_person_id,
                                           EnrollmentType(row.enrollment_status), ts)
                     ELSE tbl
       IN RouteEnrollments(next, cls, Tail(rows), ts)

\* bqEnrollmentKeys at the end of step 5
RouteKeys(cls, rows) ==
  {<<ClassIdOf(cls, rows[k].vc_class_id), rows[k].student_person_id>> :
     k \in {j \in Ids(rows) : HasClass(cls, rows[j].vc_class_id)}}

\* steps 5 and 6 of the route
RouteEnrollmentsAlone(tbl, cls, rows, ts) ==
  LET up == RouteEnrollments(tbl, cls, rows, ts)
  IN [i \in Ids(up) |->
        IF /\ up[i].source = "veracross" /\ up[i].status = "active"
           /\ <<up[i].class_id, up[i].student_person_id>> \notin RouteKeys(cls, rows)
          THEN DeactivateEnrollment(up, i)[i]
          ELSE up[i]]

\* upsertClasses of the script
ScriptClasses(tbl, rows, ts) ==
  IF rows # <<>> /\ ~HasDuplicates(rows) THEN UpsertClasses(tbl, rows, ts) ELSE tbl

\* upsertClasses and, at the end of main, the deactivation of the active
\* classes the feed does not list
ScriptClassesAlone(tbl, rows, ts) ==
  LET up == ScriptClasses(tbl, rows, ts)
  IN [i \in Ids(up) |->
        IF up[i].is_active /\ up[i].vc_class_id \notin Range(rows)
          THEN [up[i] EXCEPT !.is_active = FALSE]
          ELSE up[i]]

\* syncEnrollments of the script; cls is the class table after upsertClasses
ScriptEnrollmentsAlone(tbl, cls, rows, ts) ==
  LET known == SelectSeq(rows, LAMBDA r : HasClass(cls, r.vc_class_id))
      batch == [k \in Ids(known) |->
                  <<ClassIdOf(cls, known[k].vc_class_id), known[k].student_person_id>>]
      up == IF batch # <<>> /\ ~HasDuplicates(batch) THEN UpsertEnrollments(tbl, batch, ts)
                                                      ELSE tbl
      gone == Range(SelectVeracrossKeys(tbl)) \ Range(batch)
  IN [i \in Ids(up) |->
        IF up[i].source = "veracross" /\ <<up[i].class_id, up[i].student_person_id>> \in gone
          THEN PatchEnrollments(up, up[i].class_id, up[i].student_person_id, ts)[i]
          ELSE up[i]]

\* the class table one complete pass of the kind leaves when it runs alone
AloneClasses(kind, f, cls) ==
  IF kind = "route" THEN RouteClassesAlone(cls, f.classRows)
                    ELSE ScriptClassesAlone(cls, f.classRows, 0)

\* the enrollment table one complete pass of the kind leaves when it runs alone
AloneEnrollments(kind, f, cls, enr) ==
  IF kind = "route"
    THEN RouteEnrollmentsAlone(enr, RouteClasses(cls, f.classRows), f.enrollmentRows, 0)
    ELSE ScriptEnrollmentsAlone(enr, ScriptClasses(cls, f.classRows, 0), f.enrollmentRows, 0)

\* a pass that ran alone and returned left what AloneClasses and
\* AloneEnrollments say
AloneAsStepped ==
  \A p \in Procs :
    (PassDone(p) /\ feed.fixed) =>
      /\ ClassesNoTimes(classes) = ClassesNoTimes(AloneClasses(ps[p].kind, feed, ps[p].preClasses))
      /\ EnrollmentsNoTimes(enrollments)
           = EnrollmentsNoTimes(AloneEnrollments(ps[p].kind, feed, ps[p].preClasses,
                                                 ps[p].preEnrollments))

\* ------------------------------------------- overlapping passes, two feeds
\* the class feed gets longer, and the roster with it or not
Grown(f) ==
  {g \in Feeds :
     /\ g.kind = f.kind
     /\ Len(g.classRows) > Len(f.classRows)
     /\ Len(g.enrollmentRows) >= Len(f.enrollmentRows)
     /\ SubSeq(g.classRows, 1, Len(f.classRows)) = f.classRows
     /\ SubSeq(g.enrollmentRows, 1, Len(f.enrollmentRows)) = f.enrollmentRows}

\* a pass of the route that still holds the rows of a feed the source has replaced
HoldsOlderFeed(p) == ps[p].pc # "idle" /\ ps[p].classRows # feed.classRows

\* the source gets new rows while one pass holds the rows it queried
GrowFeed ==
  /\ passesLeft = MaxPasses
  /\ \E p \in OverlapProcs : ps[p].pc # "idle"
  /\ \A p \in OverlapProcs : ~HoldsOlderFeed(p)
  /\ \E g \in Grown(feed) : feed' = g
  /\ UNCHANGED <<store, now, ps, budget, faultsLeft, alert, agg>>

\* the first pass starts alone, the second while the first holds the older
\* feed, the third when both have returned
RaceBegin(p) ==
  /\ \/ passesLeft = MaxPasses + 1 /\ \A q \in OverlapProcs : ps[q].pc = "idle"
     \/ passesLeft = MaxPasses /\ \E q \in OverlapProcs : HoldsOlderFeed(q)
     \/ passesLeft = MaxPasses - 1 /\ \A q \in OverlapProcs : ps[q].pc = "idle"
  /\ RouteBegin(p)

\* the store the last sync left: one pass of the route alone, on the feed the
\* source then held, over the classes C1, C2 and the enrollment (C1, 1)
InitRace ==
  /\ feed \in {f \in Feeds : f.kind = "route"}
  /\ classes = AloneClasses("route", feed, SyncedClasses)
  /\ enrollments = EnrollmentsNoTimes(AloneEnrollments("route", feed, SyncedClasses,
                                                       SyncedEnrollments))
  /\ audit = SyncedAudit
  /\ systemStatus = 1
  /\ now = 1
  /\ ps = [p \in OverlapProcs |-> IdleLocals]
  /\ passesLeft = MaxPasses + 1
  /\ manualLeft = 0
  /\ faultsLeft = 0
  /\ alert = "none"
  /\ agg = QuietAgg

NextRace ==
  \/ GrowFeed
  \/ \E p \in OverlapProcs :
       \/ RaceBegin(p)
       \/ RouteLoadClasses(p)
       \/ RouteUpsertClass(p)
       \/ RouteClassesDone(p)
       \/ RouteDeactivateClass(p)
       \/ RouteDeactivateClassesDone(p)
       \/ RouteUpsertEnrollment(p)
       \/ RouteSelectEnrollments(p)
       \/ RouteDeactivateEnrollment(p)
       \/ RouteSystemStatus(p)
       \/ RouteAudit(p)
       \/ Return(p)

SpecRace == InitRace /\ [][NextRace]_vars

\* ------------------------------------------------------- an aborted pass
\* the first pass stops where it is: the process is killed, or an exception
\* reaches the catch; nothing is rolled back
Abort(p) ==
  /\ passesLeft = MaxPasses - 1
  /\ ps[p].pc \notin {"idle", "done", "failed"}
  /\ ps' = [ps EXCEPT ![p] = [@ EXCEPT !.pc = "failed"]]
  /\ UNCHANGED <<store, now, feed, budget, faultsLeft, alert, agg>>

\* two passes on one feed over the store a first sync left; the first of them
\* may be aborted at any step
InitAbort ==
  /\ classes = SyncedClasses
  /\ enrollments = SyncedEnrollments
  /\ audit = SyncedAudit
  /\ systemStatus = 1
  /\ now = 1
  /\ ps = [p \in Procs |-> IdleLocals]
  /\ feed \in Feeds
  /\ passesLeft = MaxPasses
  /\ manualLeft = 0
  /\ faultsLeft = 0
  /\ alert = "none"
  /\ agg = QuietAgg

NextAbort == (\E p \in Procs : Abort(p)) \/ NextPass

SpecAbort == InitAbort /\ [][NextAbort]_vars

\* ------------------------------------------------------- parseMeetingTimes
\* a meeting_times string is the sequence of its tokens: words and h:mm times
Word(w) == [time |-> FALSE, w |-> w, h |-> 0, m |-> 0]

Time(h, m) == [time |-> TRUE, w |-> "", h |-> h, m |-> m]

\* '', 'TBD', 'Monday', 'Monday 3:45 PM - 5:00 PM', 'Friday 12:00 PM - 1:30 PM',
\* 'Sunday 3:45 PM - 5:00 PM', '3:45 PM - 5:00 PM', 'W', 'W:3:45 - 5:00',
\* 'X:3:45 - 5:00'
MeetingStrings ==
  { <<>>,
    <<Word("TBD")>>,
    <<Word("Monday")>>,
    <<Word("Monday"), Time(3, 45), Word("PM"), Word("-"), Time(5, 0), Word("PM")>>,
    <<Word("Friday"), Time(12, 0), Word("PM"), Word("-"), Time(1, 30), Word("PM")>>,
    <<Word("Sunday"), Time(3, 45), Word("PM"), Word("-"), Time(5, 0), Word("PM")>>,
    <<Time(3, 45), Word("PM"), Word("-"), Time(5, 0), Word("PM")>>,
    <<Word("W")>>,
    <<Word("W"), Word(":"), Time(3, 45), Word("-"), Time(5, 0)>>,
    <<Word("X"), Word(":"), Time(3, 45), Word("-"), Time(5, 0)>> }

\* a time of day hh:mm:00, or null
Clock(h, m) == [null |-> FALSE, h |-> h, m |-> m]

Null == [null |-> TRUE, h |-> 0, m |-> 0]

\* const defaults = { day_of_week: 'Unknown', start_time: '15:45:00', end_time: '17:00:00' }
Defaults == [day_of_week |-> "Unknown", start_time |-> Clock(15, 45), end_time |-> Clock(17, 0)]

\* /^(Monday|Tuesday|Wednesday|Thursday|Friday)/
DayNames == {"Monday", "Tuesday", "Wednesday", "Thursday", "Friday"}

\* the first character of a word
FirstChar(w) ==
  CASE w \in {"Monday", "M"} -> "M"
    [] w \in {"Tuesday", "Thursday", "TBD", "T"} -> "T"
    [] w \in {"Wednesday", "W"} -> "W"
    [] w \in {"Friday", "F"} -> "F"
    [] w = "R" -> "R"
    [] w = "Sunday" -> "S"
    [] OTHER -> w

\* convertTo24Hour(time, period)
ConvertTo24Hour(t, period) ==
  Clock(IF period = "PM" /\ t.h # 12 THEN t.h + 12
        ELSE IF period = "AM" /\ t.h = 12 THEN 0
        ELSE t.h,
        t.m)

\* where /(\d{1,2}:\d{2})\s*(AM|PM)\s*-\s*(\d{1,2}:\d{2})\s*(AM|PM)/ matches
TimeMatches(s) ==
  {k \in 1..(Len(s) - 4) :
     /\ s[k].time
     /\ ~s[k + 1].time /\ s[k + 1].w \in {"AM", "PM"}
     /\ ~s[k + 2].time /\ s[k + 2].w = "-"
     /\ s[k + 3].time
     /\ ~s[k + 4].time /\ s[k + 4].w \in {"AM", "PM"}}

\* parseMeetingTimes of the route
RouteParseMeetingTimes(s) ==
  IF s = <<>> THEN Defaults
  ELSE IF s[1].time \/ s[1].w \notin DayNames THEN Defaults
  ELSE IF TimeMatches(s) = {}
    THEN [day_of_week |-> s[1].w, start_time |-> Defaults.start_time,
          end_time |-> Defaults.end_time]
  ELSE LET k == Min(TimeMatches(s))
       IN [day_of_week |-> s[1].w,
           start_time |-> ConvertTo24Hour(s[k], s[k + 1].w),
           end_time |-> ConvertTo24Hour(s[k + 3], s[k + 4].w)]

\* const dayMap = { 'M': 'Monday', ... }
DayMap(c) ==
  CASE c = "M" -> "Monday"
    [] c = "T" -> "Tuesday"
    [] c = "W" -> "Wednesday"
    [] c = "R" -> "Thursday"
    [] c = "F" -> "Friday"

\* /^([MTWRF]):(\d+:\d+)\s*-\s*(\d+:\d+)$/
CodeMatches(s) ==
  /\ Len(s) = 5
  /\ ~s[1].time /\ s[1].w \in {"M", "T", "W", "R", "F"}
  /\ ~s[2].time /\ s[2].w = ":"
  /\ s[3].time
  /\ ~s[4].time /\ s[4].w = "-"
  /\ s[5].time

\* parseMeetingTimes of the script
ScriptParseMeetingTimes(s) ==
  IF s = <<>> THEN [day_of_week |-> "Unknown", start_time |-> Null, end_time |-> Null]
  ELSE IF CodeMatches(s)
    THEN [day_of_week |-> DayMap(s[1].w), start_time |-> Clock(s[3].h, s[3].m),
          end_time |-> Clock(s[5].h, s[5].m)]
  ELSE IF ~s[1].time /\ FirstChar(s[1].w) \in {"M", "T", "W", "R", "F"}
    THEN [day_of_week |-> DayMap(FirstChar(s[1].w)), start_time |-> Null, end_time |-> Null]
  ELSE [day_of_week |-> "Unknown", start_time |-> Null, end_time |-> Null]

\* the class feeds with their meeting times: one row for each Class_ID
TimedFeeds ==
  [ fixed : {TRUE}, kind : Kinds, runs : {0}, enrollmentRows : {<<>>},
    classRows : {s \in SeqsUpTo([vc_class_id : ClassIds, meeting_times : MeetingStrings],
                                MaxFeedLen) :
                   \A i, j \in Ids(s) : s[i].vc_class_id = s[j].vc_class_id => i = j} ]

\* classData of a feed row, with the fields parseMeetingTimes gives
ClassData(kind, row) ==
  LET parsed == IF kind = "route" THEN RouteParseMeetingTimes(row.meeting_times)
                                  ELSE ScriptParseMeetingTimes(row.meeting_times)
  IN [vc_class_id |-> row.vc_class_id, is_active |-> TRUE, last_vc_sync |-> 0,
      day_of_week |-> parsed.day_of_week, start_time |-> parsed.start_time,
      end_time |-> parsed.end_time]

\* the route writes the next class of the feed into an empty table
RouteWriteClassData ==
  /\ feed.kind = "route"
  /\ Len(classes) < Len(feed.classRows)
  /\ classes' = Append(classes, ClassData("route", feed.classRows[Len(classes) + 1]))
  /\ UNCHANGED <<enrollments, audit, systemStatus, now, ps, feed, budget, faultsLeft, alert, agg>>

\* the script transforms the next class of the feed for its batch
ScriptWriteClassData ==
  /\ feed.kind = "script"
  /\ Len(classes) < Len(feed.classRows)
  /\ classes' = Append(classes, ClassData("script", feed.classRows[Len(classes) + 1]))
  /\ UNCHANGED <<enrollments, audit, systemStatus, now, ps, feed, budget, faultsLeft, alert, agg>>

InitParse ==
  /\ classes = <<>>
  /\ enrollments = <<>>
  /\ audit = <<>>
  /\ systemStatus = 0
  /\ now = 0
  /\ ps = [p \in Procs |-> IdleLocals]
  /\ feed \in TimedFeeds
  /\ passesLeft = 0
  /\ manualLeft = 0
  /\ faultsLeft = 0
  /\ alert = "none"
  /\ agg = QuietAgg

NextParse == RouteWriteClassData \/ ScriptWriteClassData

SpecParse == InitParse /\ [][NextParse]_vars

\* ------------------------------------------------------------------
\* Overlapping and aborted passes (spec.md, concurrency and failure)
\* ------------------------------------------------------------------

\* both passes on the feed have returned with success
BothReturned == feed.runs = 2 /\ \A p \in DOMAIN ps : ps[p].pc = "idle"

\* C21: two passes that overlap on the same feed end, under every
\* interleaving of their store calls, with the class and enrollment tables
\* (timestamps aside) that one pass run alone leaves
C21_OverlapAsOnePass ==
  BothReturned =>
    /\ ClassesNoTimes(classes) = ClassesNoTimes(AloneClasses(feed.kind, feed, SyncedClasses))
    /\ EnrollmentsNoTimes(enrollments)
         = EnrollmentsNoTimes(AloneEnrollments(feed.kind, feed, SyncedClasses,
                                               SyncedEnrollments))


\* the pass that started after both overlapping passes returned has completed
LaterPassDone(p) == passesLeft = 0 /\ ps[p].pc = "done"

\* the pairs of the current feed
CurrentPairs ==
  {<<feed.enrollmentRows[k].vc_class_id, feed.enrollmentRows[k].student_person_id>> :
     k \in Ids(feed.enrollmentRows)}

\* C22: after a pass holding an older feed overlapped a pass holding the
\* current feed, one later complete pass on the current feed, run alone,
\* leaves active every stored class the feed lists and every stored veracross
\* enrollment the feed lists: a deactivation the older pass made of a row the
\* other pass had reinstated does not outlive it
C22_LaterPassReinstates ==
  \A p \in OverlapProcs :
    LaterPassDone(p) =>
      /\ \A i \in Ids(classes) :
           classes[i].vc_class_id \in Range(feed.classRows) => classes[i].is_active
      /\ \A i \in Ids(enrollments) :
           /\ enrollments[i].source = "veracross"
           /\ <<classes[enrollments[i].class_id].vc_class_id,
                enrollments[i].student_person_id>> \in CurrentPairs
           => enrollments[i].status = "active"

\* the older pass deactivated a class of the current feed after the other
\* pass had set it active, and the later pass has set it active again
C22_Witness ==
  \E p \in OverlapProcs :
    /\ LaterPassDone(p)
    /\ \E i \in Ids(ps[p].preClasses) :
         /\ ~ps[p].preClasses[i].is_active
         /\ ps[p].preClasses[i].vc_class_id \in Range(feed.classRows)
         /\ classes[i].is_active

\* the race on a class: the pass with the current feed has set the class
\* active, the pass with the older feed has then set it inactive
ClassRace ==
  \E p, q \in OverlapProcs :
    /\ HoldsOlderFeed(p) /\ ps[p].classesDeactivated > 0
    /\ ps[q].pc # "idle" /\ ps[q].classRows = feed.classRows
    /\ \E i \in Ids(classes) :
         /\ classes[i].vc_class_id \in ps[q].bqClassIds
         /\ classes[i].vc_class_id \in DOMAIN ps[q].classIdMap
         /\ ~classes[i].is_active

\* the race on an enrollment: the pass with the current feed has upserted the
\* row, the pass with the older feed has then set it inactive
EnrollmentRace ==
  \E p, q \in OverlapProcs :
    /\ HoldsOlderFeed(p) /\ ps[p].enrollmentsDeactivated > 0
    /\ ps[q].pc # "idle" /\ ps[q].classRows = feed.classRows
    /\ \E i \in Ids(enrollments) :
         /\ <<enrollments[i].class_id, enrollments[i].student_person_id>>
              \in ps[q].bqEnrollmentKeys
         /\ enrollments[i].status = "inactive"


\* the second pass on the feed has completed
SecondPassDone(p) == passesLeft = 0 /\ ps[p].pc = "done"

\* C23: when a pass was aborted after any prefix of its writes, one later
\* complete pass on the same feed leaves the class and enrollment tables
\* (timestamps aside) as one complete pass leaves them from the store before
\* the aborted pass
C23_ConvergesAfterAbort ==
  \A p \in Procs :
    SecondPassDone(p) =>
      /\ ClassesNoTimes(classes) = ClassesNoTimes(AloneClasses(feed.kind, feed, SyncedClasses))
      /\ EnrollmentsNoTimes(enrollments)
           = EnrollmentsNoTimes(AloneEnrollments(feed.kind, feed, SyncedClasses,
                                                 SyncedEnrollments))

\* the second pass has completed from a store that is neither the one before
\* the first pass nor the one a complete pass leaves: the first pass was
\* aborted between two of its writes
C23_Witness ==
  \E p \in Procs :
    /\ SecondPassDone(p)
    /\ <<ClassesNoTimes(ps[p].preClasses), EnrollmentsNoTimes(ps[p].preEnrollments)>>
         \notin {<<ClassesNoTimes(SyncedClasses), EnrollmentsNoTimes(SyncedEnrollments)>>,
                 <<ClassesNoTimes(AloneClasses(feed.kind, feed, SyncedClasses)),
                   EnrollmentsNoTimes(AloneEnrollments(feed.kind, feed, SyncedClasses,
                                                       SyncedEnrollments))>>}


\* ------------------------------------------------------------------
\* Meeting times of a class row (spec.md, feed parsing)

\* the string names a day of the week, by its name or by its one-letter code
RecognisedDay(s) ==
  /\ s # <<>>
  /\ ~s[1].time
  /\ s[1].w \in DayNames \cup {"M", "T", "W", "R", "F"}

DayNamed(s) == IF s[1].w \in DayNames THEN s[1].w ELSE DayMap(s[1].w)

NoTimes(s) == \A k \in Ids(s) : ~s[k].time

\* C24: a feed class row whose meeting-times string is empty or names no day
\* is written with day 'Unknown' and start and end time null; a string with a
\* recognised day and no time range is written with that day and null times.
C24_UnparsedTimesAreNull ==
  \A i \in Ids(classes) :
    LET s == feed.classRows[i].meeting_times
        c == classes[i]
    IN /\ (s = <<>> \/ ~RecognisedDay(s)) =>
            c.day_of_week = "Unknown" /\ c.start_time = Null /\ c.end_time = Null
       /\ (RecognisedDay(s) /\ NoTimes(s)) =>
            c.day_of_week = DayNamed(s) /\ c.start_time = Null /\ c.end_time = Null


\* ------------------------------------------------------------------
\* Summary counts of a pass (spec.md, sync trigger)

\* the rows a pass found active and left not active
ClassesFlipped(p) ==
  {i \in Ids(ps[p].preClasses) : ps[p].preClasses[i].is_active /\ ~classes[i].is_active}

EnrollmentsFlipped(p) ==
  {i \in Ids(ps[p].preEnrollments) :
     ps[p].preEnrollments[i].status = "active" /\ enrollments[i].status # "active"}

\* C25: the counts a route pass returns equal what the pass did: its
\* deactivated-classes count is the number of classes it flipped from active
\* to inactive, its deactivated-enrollments count the number of enrollments it
\* flipped from active.
C25_CountsAreWhatThePassDid ==
  \A p \in Procs :
    (ps[p].kind = "route" /\ ps[p].pc = "done") =>
      /\ Counts(ps[p]).classes_deactivated = Cardinality(ClassesFlipped(p))
      /\ Counts(ps[p]).enrollments_deactivated = Cardinality(EnrollmentsFlipped(p))


\* ------------------------------------------------------------------
\* The class list of the home page (spec.md, read accessors)

\* .from('asp_classes').select('*, asp_enrollments!inner(count)').eq('is_active', true):
\* the inner join keeps the classes that have an enrollment row, and the count
\* is of all the rows of the class
EmbeddedCounts(cls, enr) ==
  LET RowsOf(i) == {k \in Ids(enr) : enr[k].class_id = i}
      Joined(i) == cls[i].is_active /\ RowsOf(i) # {}
      ids == SelectSeq([i \in Ids(cls) |-> i], Joined)
  IN [n \in Ids(ids) |-> [id |-> ids[n], enrollment_count |-> Cardinality(RowsOf(ids[n]))]]

\* select('*').eq('is_active', true), then for each class the count of its
\* rows with .eq('class_id', cls.id).eq('status', 'active')
FallbackCounts(cls, enr) ==
  LET Active(i) == cls[i].is_active
      ids == SelectSeq([i \in Ids(cls) |-> i], Active)
  IN [n \in Ids(ids) |->
        [id |-> ids[n],
         enrollment_count |->
           Cardinality({k \in Ids(enr) : enr[k].class_id = ids[n] /\ enr[k].status = "active"})]]

\* loadClasses with selectedDay 'all': the embedded-count query, and when it
\* answers with an error the simple query with one count per class; when that
\* fails too the list is left as it was
LoadClasses ==
  /\ \E embedded \in BOOLEAN, simple \in BOOLEAN :
       agg' = IF embedded
                THEN [agg EXCEPT !.classList =
                        [loaded |-> TRUE, rows |-> EmbeddedCounts(classes, enrollments)]]
              ELSE IF simple
                THEN [agg EXCEPT !.classList =
                        [loaded |-> TRUE, rows |-> FallbackCounts(classes, enrollments)]]
              ELSE agg
  /\ UNCHANGED <<store, now, ps, feed, budget, faultsLeft, alert>>

\* any stored program of two classes, each active or not, with any enrollments
InitList ==
  /\ classes \in {[i \in Ids(SyncedClasses) |-> [SyncedClasses[i] EXCEPT !.is_active = act[i]]] :
                    act \in [Ids(SyncedClasses) -> BOOLEAN]}
  /\ enrollments \in RosterEnrollments
  /\ audit = SyncedAudit
  /\ systemStatus = 1
  /\ now = 1
  /\ ps = [p \in Procs |-> IdleLocals]
  /\ feed = FreeFeed
  /\ passesLeft = 0
  /\ manualLeft = 0
  /\ faultsLeft = 0
  /\ alert = "none"
  /\ agg = QuietAgg

NextList == LoadClasses

SpecList == InitList /\ [][NextList]_vars

\* C26: the enrollment_count shown for every active class is the number of
\* its enrollment rows with status active, and the list holds every active
\* class (also one with no enrollments) whichever of the two queries ran.
C26_CountIsActiveEnrollments ==
  agg.classList.loaded =>
    /\ {r.id : r \in Range(agg.classList.rows)} = {i \in Ids(classes) : classes[i].is_active}
    /\ \A r \in Range(agg.classList.rows) :
         r.enrollment_count =
           Cardinality({k \in Ids(enrollments) :
                          enrollments[k].class_id = r.id /\ enrollments[k].status = "active"})


\* ------------------------------------------------------------------
\* Active enrollments and their classes (spec.md, reconciliation order)

\* C27: when a pass returns, every enrollment row with provenance veracross
\* and status active references a class that is active.
C27_ActiveEnrollmentOnActiveClass ==
  \A p \in Procs :
    PassDone(p) =>
      \A i \in Ids(enrollments) :
        (enrollments[i].source = "veracross" /\ enrollments[i].status = "active") =>
          classes[enrollments[i].class_id].is_active


\* ------------------------------------------------------------------
\* Gating of the daily roster email (spec.md, notification delivery)
Days == {"Sunday", "Monday", "Tuesday", "Wednesday", "Thursday", "Friday", "Saturday"}

\* a gate that lets every day through
NoDays == {}

\* ['Friday', 'Saturday', 'Sunday']
NoAspDays == {"Friday", "Saturday", "Sunday"}

\* .from('asp_users').eq('is_active', true).eq('receives_daily_email', true)
Recipients(users) ==
  SelectSeq(users, LAMBDA u : u.is_active /\ u.receives_daily_email)

\* .from('asp_classes').eq('day_of_week', targetDay).eq('is_active', true)
ClassesOn(targetDay) ==
  SelectSeq([i \in 1..Len(classes) |-> i],
            LAMBDA i : classes[i].day_of_week = targetDay /\ classes[i].is_active)

\* one invocation of a daily email handler on the day today: what it answers,
\* how often it calls the delivery service and the rosters it sends
Invocation(sender, today, isTest, recipientsOk, classesOk, sendOk) ==
  LET targetDay == IF isTest THEN "Monday" ELSE today
      recipients == IF recipientsOk THEN Recipients(agg.users) ELSE <<>>
      dayClasses == IF classesOk THEN ClassesOn(targetDay) ELSE <<>>
      base == [sender |-> sender, today |-> today, isTest |-> isTest,
               recipientsOk |-> recipientsOk, classesOk |-> classesOk, sendOk |-> sendOk,
               calls |-> 0, response |-> "message"]
  IN IF today \in NoAspDays /\ ~isTest
       THEN [agg EXCEPT !.delivery = base]
     ELSE IF recipients = <<>>
       THEN [agg EXCEPT !.delivery = [base EXCEPT !.response = "error"]]
     ELSE IF dayClasses = <<>>
       THEN [agg EXCEPT !.delivery = base]
     ELSE IF ~agg.resendApiKey
       THEN [agg EXCEPT !.delivery = [base EXCEPT !.response = "error"]]
     ELSE [agg EXCEPT
             !.mail = [sender |-> sender, rosters |-> RostersOf(dayClasses, VcAbsent)],
             !.delivery = [base EXCEPT !.calls = 1,
                                       !.response = IF sendOk THEN "success" ELSE "error"]]

\* POST /api/send-daily-email on any day, with ?test=true or without
PostDailyEmail ==
  /\ \E today \in Days, isTest \in BOOLEAN, recipientsOk \in BOOLEAN,
        classesOk \in BOOLEAN, sendOk \in BOOLEAN :
       agg' = Invocation("route", today, isTest, recipientsOk, classesOk, sendOk)
  /\ UNCHANGED <<store, now, ps, feed, budget, faultsLeft, alert>>

\* the send-asp-daily-email function on any day; it has no test mode
ServeDailyEmail ==
  /\ \E today \in Days, recipientsOk \in BOOLEAN, classesOk \in BOOLEAN, sendOk \in BOOLEAN :
       agg' = Invocation("edge", today, FALSE, recipientsOk, classesOk, sendOk)
  /\ UNCHANGED <<store, now, ps, feed, budget, faultsLeft, alert>>

\* asp_users rows: active or not, receiving the daily email or not
Users == [is_active : BOOLEAN, receives_daily_email : BOOLEAN]

\* two classes, each on Monday, Tuesday or Friday, the second active or not,
\* the enrollment of a sync, at most one user, the delivery key configured or
\* not
InitGate ==
  /\ classes \in {[i \in Ids(SyncedClasses) |->
                     [vc_class_id |-> SyncedClasses[i].vc_class_id, is_active |-> act[i],
                      last_vc_sync |-> 0, day_of_week |-> day[i]]] :
                    act \in {f \in [Ids(SyncedClasses) -> BOOLEAN] : f[1]},
                    day \in [Ids(SyncedClasses) -> {"Monday", "Tuesday", "Friday"}]}
  /\ enrollments = SyncedEnrollments
  /\ audit = SyncedAudit
  /\ systemStatus = 1
  /\ now = 1
  /\ ps = [p \in Procs |-> IdleLocals]
  /\ feed = FreeFeed
  /\ passesLeft = 0
  /\ manualLeft = 0
  /\ faultsLeft = 0
  /\ alert = "none"
  /\ agg \in {[QuietAgg EXCEPT !.users = u, !.resendApiKey = k] :
                u \in SeqsUpTo(Users, 1), k \in BOOLEAN}

NextGate == PostDailyEmail \/ ServeDailyEmail

SpecGate == InitGate /\ [][NextGate]_vars

\* the last invocation and its day
Invoked == agg.delivery.sender # "none"

NoRecipient == Recipients(agg.users) = <<>>

Toggled ==
  {s \in DOMAIN agg.students :
     (<<agg.page.classId, s>> \in agg.manualAbsences) #
       (<<agg.page.classId, s>> \in agg'.manualAbsences)}

\* C29: a toggle that the store accepted flips the display of its student: one
\* displayed as absent (button 'Mark Present') is displayed as present after
\* it, and one displayed as present is displayed as absent.
C29_ToggleFlipsDisplay ==
  [][\A s \in Toggled :
       (s \in agg.page.vcAbsentStudents \cup agg.page.manualAbsentStudents) #
         (s \in agg'.page.vcAbsentStudents \cup agg'.page.manualAbsentStudents)]_vars


\* ------------------------------------------------------------------
\* The printed roster (spec.md, class detail page)

\* handlePrintRoster: one table row for each listed enrollment, marked ABSENT
\* when its student is in allAbsent, and the three totals under the table
HandlePrintRoster ==
  /\ agg.page.classId # 0
  /\ LET allAbsent == agg.page.vcAbsentStudents \cup agg.page.manualAbsentStudents
         rows == [k \in Ids(agg.page.enrollments) |->
                    agg.page.enrollments[k].student_person_id \in allAbsent]
     IN agg' = [agg EXCEPT !.printed =
                  [done |-> TRUE, rows |-> rows,
                   total |-> Len(agg.page.enrollments),
                   present |-> Len(agg.page.enrollments) - Cardinality(allAbsent),
                   absent |-> Cardinality(allAbsent)]]
  /\ UNCHANGED <<store, now, ps, feed, budget, faultsLeft, alert>>

\* a day of the stored program with Bob Smith and Ann Adams as students, any
\* enrollments and attendance marks, and one removal by staff to come
InitPrint ==
  /\ classes = SyncedClasses
  /\ enrollments \in RosterEnrollments
  /\ audit = SyncedAudit
  /\ systemStatus = 1
  /\ now = 1
  /\ ps = [p \in Procs |-> IdleLocals]
  /\ feed = FreeFeed
  /\ passesLeft = 0
  /\ manualLeft = MaxManual
  /\ faultsLeft = 0
  /\ alert = "none"
  /\ agg \in {[QuietAgg EXCEPT
                 !.students = [s \in RosterStudents |->
                                 IF s = 1 THEN Identity("Bob", "Smith")
                                          ELSE Identity("Ann", "adams")],
                 !.marks = marks] :
                marks \in [RosterStudents -> Marks]}

NextPrint == OpenClassPage \/ ToggleManualAbsence \/ HandleRemoveStudent \/ HandlePrintRoster

SpecPrint == InitPrint /\ [][NextPrint]_vars

\* C30: in a printed roster the Absent count is the number of rows marked
\* ABSENT, the Present count the number of rows marked Present, and Present
\* plus Absent is the Total.
C30_PrintTotalsMatchRows ==
  agg.printed.done =>
    LET p == agg.printed
    IN /\ p.absent = Cardinality({k \in Ids(p.rows) : p.rows[k]})
       /\ p.present = Cardinality({k \in Ids(p.rows) : ~p.rows[k]})
       /\ p.present + p.absent = p.total

====
